---- MODULE Spec2Model ----
(***************************************************************************)
(* A model of hardhat-build's interface generator (src/src/index.ts, the   *)
(* `/// @custom:interface` engine): directive parsing, the structural      *)
(* extractor, doc-comment association, inclusion policy, inheritance       *)
(* rewriting, type substitution, interface assembly, and the file-writing  *)
(* step with its skip-if-up-to-date policy and module directives.          *)
(*                                                                         *)
(* Text is modelled at token level.  A source file is a sequence of line   *)
(* records; the fragments the engine rewrites (parameter lists, return     *)
(* clauses, getter lines) are sequences of tokens in which every           *)
(* delimiter character the code's regular expressions look at (space,      *)
(* comma, parentheses, brackets) is a token of its own.                    *)
(***************************************************************************)
EXTENDS Integers, Sequences, FiniteSets, TLC

VARIABLES
  fs,      \* the file system: path -> [exists, mtime, data]
  gen,     \* the live InterfaceGenerator instance (alive = FALSE: none)
  last,    \* record of the most recent call: its inputs and its outcome
  prev,    \* the previous forced generation of the primary output
  clock,   \* the wall clock that stamps mtimes
  run      \* the command-line run in progress: its position and its counters

vars == <<fs, gen, last, prev, clock, run>>

----------------------------------------------------------------------------
(* Bounds of the model *)

\* the wall clock runs from 1 to MaxClock
MaxClock == 3
\* longest run of lines drawn line by line from an alphabet
MaxLines == 3
\* most function declarations in a drawn contract body
MaxFuns == 2
\* most entries in a drawn parameter list
MaxParams == 3
\* most state variables in a drawn contract body
MaxVars == 2
\* generations of one source that are counted
MaxRuns == 2
\* most directives of the shared kinds in a source given to both front ends
MaxDirs == 1

----------------------------------------------------------------------------
(* Generic helpers on sequences *)

Range(s) == {s[i] : i \in DOMAIN s}

Contains(s, x) == \E i \in DOMAIN s : s[i] = x

RECURSIVE Flatten(_)
Flatten(ss) == IF ss = <<>> THEN <<>> ELSE Head(ss) \o Flatten(Tail(ss))

\* all sequences over S of length at most n
SeqsUpTo(S, n) == UNION {[1..k -> S] : k \in 0..n}

\* Body applied to the value of e, which is computed once
Bind(e, Body(_)) == CHOOSE r \in {Body(x) : x \in {e}} : TRUE

\* Array.prototype.findIndex, 1-based; 0 when nothing matches (JS: -1)
FirstIndex(s, P(_)) ==
  IF \E i \in DOMAIN s : P(s[i])
    THEN CHOOSE i \in DOMAIN s : P(s[i]) /\ \A j \in 1..(i-1) : ~P(s[j])
    ELSE 0

----------------------------------------------------------------------------
(* Map<string,string> with insertion order: a sequence of <<key, value>>   *)

MapHas(m, k) == \E i \in DOMAIN m : m[i][1] = k

MapGet(m, k) == m[CHOOSE i \in DOMAIN m : m[i][1] = k][2]

\* Map.prototype.set: an existing key keeps its place, a new key is appended
MapSet(m, k, v) ==
  IF MapHas(m, k)
    THEN [i \in DOMAIN m |-> IF m[i][1] = k THEN <<k, v>> ELSE m[i]]
    ELSE Append(m, <<k, v>>)

----------------------------------------------------------------------------
(* Tokens.  A directive argument is <<"w", text>> (a bare word) or         *)
(* <<"q", text>> (a double-quoted string).                                 *)

W(x) == <<"w", x>>
Q(x) == <<"q", x>>
IsBare(t) == t[1] = "w"
IsQuoted(t) == t[1] = "q"
TokText(t) == t[2]

\* String.prototype.trim on a token text: drop whitespace tokens at both ends
RECURSIVE TrimLeft(_)
TrimLeft(t) == IF t # <<>> /\ Head(t) \in {" ", "\n"} THEN TrimLeft(Tail(t)) ELSE t

RECURSIVE TrimRight(_)
TrimRight(t) ==
  IF t # <<>> /\ t[Len(t)] \in {" ", "\n"} THEN TrimRight(SubSeq(t, 1, Len(t) - 1)) ELSE t

Trim(t) == TrimRight(TrimLeft(t))

----------------------------------------------------------------------------
(* TypeSubstitutionEngine: applyTypeReplacements                           *)

\* the character class [\(,\s] on the left of a mapped name
LeftBoundary == {"(", ",", " ", "\n"}
\* the character class [\s,\)\[] on the right of a mapped name
RightBoundary == {" ", "\n", ",", ")", "["}

\* String.prototype.replace with the global regular expression
\* ([\(,\s])original([\s,\)\[]): matches are found left to right and do not
\* overlap, so the boundary character a match ends with is consumed
RECURSIVE ReplaceBounded(_, _, _, _)
ReplaceBounded(text, original, replacement, p) ==
  IF p + 2 > Len(text) THEN text
  ELSE IF /\ text[p] \in LeftBoundary
          /\ text[p + 1] = original
          /\ text[p + 2] \in RightBoundary
    THEN ReplaceBounded([text EXCEPT ![p + 1] = replacement],
                        original, replacement, p + 3)
    ELSE ReplaceBounded(text, original, replacement, p + 1)

\* the body of the forEach callback for one (replacement, original) pair
ReplaceOnePair(result, original, replacement) ==
  IF result = <<original>> THEN <<replacement>>
  ELSE ReplaceBounded(result, original, replacement, 1)

RECURSIVE ReplaceAllPairs(_, _)
ReplaceAllPairs(result, pairs) ==
  IF pairs = <<>> THEN result
  ELSE ReplaceAllPairs(ReplaceOnePair(result, Head(pairs)[1], Head(pairs)[2]),
                       Tail(pairs))

applyTypeReplacements(text, replaceDirectives) ==
  IF text = <<>> \/ replaceDirectives = <<>> THEN text
  ELSE ReplaceAllPairs(text, replaceDirectives)

----------------------------------------------------------------------------
(* Source lines.  Every line of a source file is a record with a kind k.   *)
(*   dir       /// @custom:interface <kw> <args...>                        *)
(*   docBare   ///                  (a doc comment with nothing behind it) *)
(*   doc       /// <words>          (single-line doc comment)              *)
(*   blockOpen /**                  blockMid  * <words>                    *)
(*   blockEnd  */                   blockOne  /** <words> */               *)
(*   comment   // <words>           blank     (empty line)                 *)
(*   header    [abstract] contract <name> [is <bases>] {                   *)
(*   function  function <name>(<params>) <quals> [returns (<ret>)] { or ;  *)
(*   event     event <name>(<params>);   error   error <name>(<params>);   *)
(*   var       <type> <words> ;     (qualifier words, then the name)       *)
(*   close     }                    code      any other statement          *)

DirLine(kw, args) == [k |-> "dir", kw |-> kw, args |-> args]
DocLine(words) == [k |-> "doc", t |-> words]
DocBare == [k |-> "docBare"]
BlockOpen == [k |-> "blockOpen"]
BlockMid(words) == [k |-> "blockMid", t |-> words]
BlockEnd == [k |-> "blockEnd"]
BlockOne(words) == [k |-> "blockOne", t |-> words]
CommentLine == [k |-> "comment"]
BlankLine == [k |-> "blank"]
CloseLine == [k |-> "close"]
CodeLine == [k |-> "code"]
HeaderLine(name, bases) == [k |-> "header", name |-> name, bases |-> bases]
FunctionLine(name, params, quals, ret, body) ==
  [k |-> "function", name |-> name, params |-> params, quals |-> quals,
   ret |-> ret, body |-> body]
EventLine(name, params) == [k |-> "event", name |-> name, params |-> params]
ErrorLine(name, params) == [k |-> "error", name |-> name, params |-> params]
VarLine(type, words, paren) ==
  [k |-> "var", type |-> type, words |-> words, paren |-> paren]

\* a path is the sequence of its space-separated words; <<>> is the empty string
Path(x) == <<x>>
NoPath == <<>>

----------------------------------------------------------------------------
(* DirectiveGrammar: parseDirectiveContent and storeDirective              *)

\* the words the model uses where the grammar asks for \w+
Identifiers ==
  {"A", "B", "C", "IA", "IB", "Ownable", "IOwnable", "f", "g", "h", "x", "y",
   "Lock", "Mod", "a", "b"}

IsIdent(w) == w \in Identifiers

\* the result when no sub-grammar matches: { type: 'build', content }, with
\* the generator's buildPath left alone
\* one mutant of FallbackDirective: the fallback records its payload as the
\* output path, as a well-formed build directive does
FallbackDirective_SetsBuild(kw, args) ==
  [type |-> "build",
   content |-> <<kw>> \o Flatten([i \in DOMAIN args |-> Tail(args[i])]),
   setsBuild |-> TRUE]

FallbackDirective(kw, args) ==
  [type |-> "build", content |-> <<W(kw)>> \o args, setsBuild |-> FALSE]

\* one mutant of parseDirectiveContent: the build sub-grammar no longer
\* records the path on the generator
parseDirectiveContent_NoBuildPath(kw, args) ==
  IF kw = "build" /\ Len(args) = 1
    THEN [type |-> "build", content |-> Tail(args[1]), setsBuild |-> FALSE]
    ELSE FallbackDirective(kw, args)

\* the sub-grammars in the code's order; each is anchored on its keyword, so
\* at most one can match.  setsBuild marks the build grammar's side effect
\* (this.buildPath = buildPath).
parseDirectiveContent(kw, args) ==
  CASE kw = "build" /\ Len(args) = 1 /\ Len(args[1]) = 2 ->
         \* ^build\s+(?:"([^"]+)"|(\S+))$ : one quoted string or one word
         [type |-> "build", content |-> Tail(args[1]), setsBuild |-> TRUE]
    [] kw = "build" /\ Len(args) = 1 /\ IsQuoted(args[1]) /\ Len(args[1]) > 2 ->
         [type |-> "build", content |-> Tail(args[1]), setsBuild |-> TRUE]
    [] /\ kw = "module" /\ Len(args) >= 3
       /\ IsQuoted(args[1]) /\ args[2] = W("to") /\ IsQuoted(args[3]) ->
         \* ^module\s+"([^"]+)"\s+to\s+"([^"]+)"(.*)$ ; the content is the
         \* string `${from} to ${to} ${flags}`, its quotes around from and to
         \* dropped
         [type |-> "module",
          content |-> [i \in 1..(Len(args[1]) - 1) |-> W(args[1][i + 1])]
                      \o <<W("to")>>
                      \o [i \in 1..(Len(args[3]) - 1) |-> W(args[3][i + 1])]
                      \o SubSeq(args, 4, Len(args)),
          setsBuild |-> FALSE]
    [] kw = "copyright" /\ Len(args) = 1 /\ IsQuoted(args[1]) ->
         [type |-> "copyright", content |-> Tail(args[1]), setsBuild |-> FALSE]
    [] /\ kw = "import" /\ Len(args) \in {1, 2}
       /\ (IsQuoted(args[1]) \/ IsBare(args[1]))
       /\ (Len(args) = 2 => args[2] = W(";")) ->
         \* ^import\s+(?:"([^"]+)"|(\S+))(?:\s*;)?$ : \S+ is greedy, so a
         \* semicolon written against a bare path is part of the path; a
         \* bare word is <<"w", text>> or, with such a semicolon,
         \* <<"w", text, ";">>
         [type |-> "import", content |-> Tail(args[1]), setsBuild |-> FALSE]
    [] /\ kw = "replace" /\ Len(args) = 3
       /\ IsBare(args[1]) /\ IsIdent(TokText(args[1]))
       /\ args[2] = W("with")
       /\ IsBare(args[3]) /\ IsIdent(TokText(args[3])) ->
         [type |-> "replace",
          content |-> <<TokText(args[1]), TokText(args[3])>>,
          setsBuild |-> FALSE]
    [] kw \in {"remove", "exclude", "include", "getter", "is"} /\ Len(args) >= 1 ->
         [type |-> kw, content |-> args, setsBuild |-> FALSE]
    [] OTHER -> FallbackDirective(kw, args)

\* content.split(/\s+/): the words of the payload
SplitWords(content) == Flatten([i \in DOMAIN content |-> Tail(content[i])])

\* content.split(/\s*,\s*/) then trim: the items between the commas; an
\* empty item is "".  (The input sets keep every item to one word.)
RECURSIVE SplitCommas(_, _)
SplitCommas(words, cur) ==
  IF words = <<>> THEN <<cur>>
  ELSE IF Head(words) = "," THEN <<cur>> \o SplitCommas(Tail(words), "")
  ELSE SplitCommas(Tail(words), IF cur = "" THEN Head(words) ELSE cur)

\* directive.content.match(/^(.+?)\s+to\s+(.+?)(\s+.+)?$/) on the module
\* content: `from` ends at the first word "to" that has a word on both sides,
\* `to` is the one word after it, `flags` is whatever follows
ModuleSplit(content) ==
  LET cut == FirstIndex([i \in DOMAIN content |->
                           i >= 2 /\ i < Len(content) /\ content[i] = W("to")],
                        LAMBDA b : b)
  IN IF cut = 0 THEN <<>>
     ELSE <<[from  |-> SplitWords(SubSeq(content, 1, cut - 1)),
             to    |-> SplitWords(<<content[cut + 1]>>),
             flags |-> SubSeq(content, cut + 2, Len(content))]>>

storeDirective(g, d) ==
  CASE d.type = "copyright" -> [g EXCEPT !.copyrightNotice = d.content]
    [] d.type = "import" ->
         [g EXCEPT !.importDirectives = Append(@, d.content)]
    [] d.type = "replace" ->
         [g EXCEPT !.replaceDirectives = MapSet(@, d.content[1], d.content[2])]
    [] d.type = "remove" ->
         [g EXCEPT !.removeDirectives = @ \cup Range(SplitWords(d.content))]
    [] d.type = "exclude" ->
         [g EXCEPT !.excludeDirectives = @ \cup Range(SplitWords(d.content))]
    [] d.type = "include" ->
         [g EXCEPT !.includeDirectives = @ \cup Range(SplitWords(d.content))]
    [] d.type = "getter" ->
         [g EXCEPT !.getterDirectives = @ \cup Range(SplitWords(d.content))]
    [] d.type = "is" ->
         [g EXCEPT !.isDirectives = @ \o SplitCommas(SplitWords(d.content), "")]
    [] d.type = "module" ->
         [g EXCEPT !.moduleDirectives = @ \o ModuleSplit(d.content)]
    [] OTHER -> g

\* no generator
NoGen ==
  [alive |-> FALSE, contractPath |-> NoPath, force |-> FALSE, lines |-> <<>>,
   buildPath |-> NoPath, copyrightNotice |-> <<>>, importDirectives |-> <<>>,
   replaceDirectives |-> <<>>, removeDirectives |-> {},
   excludeDirectives |-> {}, includeDirectives |-> {},
   getterDirectives |-> {}, isDirectives |-> <<>>, moduleDirectives |-> <<>>]

\* parseDirectives: every directive line, top to bottom, is parsed (which may
\* set buildPath) and then stored
RECURSIVE parseDirectives(_, _)
parseDirectives(g, i) ==
  IF i > Len(g.lines) THEN g
  ELSE IF g.lines[i].k # "dir" THEN parseDirectives(g, i + 1)
  ELSE LET d  == parseDirectiveContent(g.lines[i].kw, g.lines[i].args)
           g1 == IF d.setsBuild THEN [g EXCEPT !.buildPath = d.content] ELSE g
       IN Bind(storeDirective(g1, d), LAMBDA g2 : parseDirectives(g2, i + 1))

\* constructor(contractPath, force): read the file, split it, parse directives
NewGenerator(contractPath, force, files) ==
  parseDirectives([NoGen EXCEPT !.alive = TRUE,
                                !.contractPath = contractPath,
                                !.force = force,
                                !.lines = files[contractPath].data], 1)

----------------------------------------------------------------------------
(* DocCommentAssociator: extractNatspecForLine                             *)

\* line.startsWith('/// @custom:interface')
IsDirectiveLine(l) == l.k = "dir"
\* line.includes('*/')
HasBlockCloser(l) == l.k \in {"blockEnd", "blockOne"}
\* line.startsWith('/**')
StartsBlockOpener(l) == l.k \in {"blockOpen", "blockOne"}
\* line.startsWith('*')
StartsStar(l) == l.k \in {"blockMid", "blockEnd"}
\* line.startsWith('/// ')
IsDocLine(l) == l.k = "doc"
\* line === ''
IsBlank(l) == l.k = "blank"
\* line.startsWith('//') && !line.startsWith('///')
IsPlainComment(l) == l.k = "comment"

\* the while loop, walking upward from currentLine with the lines collected
\* so far (natspec.unshift puts each new line in front)
RECURSIVE NatspecScan(_, _, _, _)
NatspecScan(lines, currentLine, inBlockComment, natspec) ==
  IF currentLine < 1 \/ currentLine > Len(lines) THEN natspec
  ELSE LET line == lines[currentLine] IN
    IF IsDirectiveLine(line)
      THEN NatspecScan(lines, currentLine - 1, inBlockComment, natspec)
    ELSE IF HasBlockCloser(line)
      THEN NatspecScan(lines, currentLine - 1, TRUE, <<line>> \o natspec)
    ELSE IF inBlockComment
      THEN IF StartsStar(line) \/ StartsBlockOpener(line)
             THEN IF StartsBlockOpener(line)
                    THEN <<line>> \o natspec
                    ELSE NatspecScan(lines, currentLine - 1, TRUE,
                                     <<line>> \o natspec)
           ELSE IF IsBlank(line)
             THEN NatspecScan(lines, currentLine - 1, TRUE, <<line>> \o natspec)
           ELSE natspec
    ELSE IF IsDocLine(line)
      THEN NatspecScan(lines, currentLine - 1, FALSE, <<line>> \o natspec)
    ELSE IF IsBlank(line) \/ IsPlainComment(line)
      THEN NatspecScan(lines, currentLine - 1, FALSE, natspec)
    ELSE natspec

\* natspec.join('\n').trim(): blank lines at either end disappear
RECURSIVE TrimBlankLines(_)
TrimBlankLines(ns) ==
  IF ns = <<>> THEN ns
  ELSE IF IsBlank(Head(ns)) THEN TrimBlankLines(Tail(ns))
  ELSE IF IsBlank(ns[Len(ns)]) THEN TrimBlankLines(SubSeq(ns, 1, Len(ns) - 1))
  ELSE ns

\* lineNumber is 1-based; the scan starts at 0-based index lineNumber - 2,
\* which is index lineNumber - 1 of a 1-based sequence
extractNatspecForLine(lines, lineNumber) ==
  TrimBlankLines(NatspecScan(lines, lineNumber - 1, FALSE, <<>>))

\* formatNatspec: the non-empty lines, each behind the indent
formatNatspec(natspec, indent) ==
  LET kept == SelectSeq(natspec, LAMBDA l : ~IsBlank(l))
  IN [i \in DOMAIN kept |-> [k |-> "natspec", indent |-> indent, line |-> kept[i]]]

----------------------------------------------------------------------------
(* StructuralExtractor                                                     *)

Visibilities == {"external", "public", "internal", "private"}
Mutabilities == {"view", "pure", "payable"}

\* line.includes(`contract ${name}`): the header itself, or a comment whose
\* words hold "contract" followed by the name
Mentions(l, name) ==
  \/ l.k = "header" /\ l.name = name
  \/ /\ l.k \in {"doc", "blockMid", "blockOne"}
     /\ \E i \in 1..(Len(l.t) - 1) : l.t[i] = "contract" /\ l.t[i + 1] = name

\* the inheritance text of the header, split(',') and trimmed
InheritanceList(text) ==
  SplitCommas(SelectSeq(text, LAMBDA c : c \notin {" ", "\n"}), "")

\* one mutant of parseContract: a source without a header is taken for an
\* unnamed contract instead of being refused
parseContract_Unnamed(lines) ==
  LET h == FirstIndex(lines, LAMBDA l : l.k = "header") IN
  IF h = 0
    THEN [found |-> TRUE, name |-> "", natspec |-> <<>>, inheritance |-> <<>>]
    ELSE LET contractName == lines[h].name
             contractLineIndex ==
               FirstIndex(lines, LAMBDA l : Mentions(l, contractName)) - 1
         IN [found |-> TRUE,
             name |-> contractName,
             natspec |-> extractNatspecForLine(lines, contractLineIndex),
             inheritance |-> lines[h].bases]

\* parseContract: found = FALSE stands for the thrown
\* Error('Contract declaration not found')
parseContract(lines) ==
  LET h == FirstIndex(lines, LAMBDA l : l.k = "header") IN
  IF h = 0
    THEN [found |-> FALSE, name |-> "", natspec |-> <<>>, inheritance |-> <<>>]
    ELSE LET contractName == lines[h].name
             \* findIndex is 0-based and is passed on as a 1-based line number
             contractLineIndex ==
               FirstIndex(lines, LAMBDA l : Mentions(l, contractName)) - 1
         IN [found |-> TRUE,
             name |-> contractName,
             natspec |-> extractNatspecForLine(lines, contractLineIndex),
             inheritance |-> lines[h].bases]

\* number of '}' the brace loop of parseFunction meets on a line before it
\* meets a '{' (or before the line ends)
ClosersBeforeOpen(l) == IF l.k = "close" THEN 1 ELSE 0
\* the line holds a '{'
HasOpenBrace(l) ==
  \/ l.k \in {"header", "codeOpen"}
  \/ l.k = "function" /\ l.body

\* the aggregation loop of parseFunction: the last line of the aggregated
\* declaration (the loop breaks on the first line after which an open brace
\* was found and braceCount > 0, else it runs to the end of the file)
RECURSIVE AggregateEnd(_, _, _, _)
AggregateEnd(lines, i, braceCount, foundOpenBrace) ==
  IF i > Len(lines) THEN Len(lines)
  ELSE LET afterClosers == braceCount - ClosersBeforeOpen(lines[i])
           count == IF HasOpenBrace(lines[i]) THEN afterClosers + 1
                    ELSE afterClosers
           found == foundOpenBrace \/ HasOpenBrace(lines[i])
       IN IF found /\ count > 0 THEN i
          ELSE AggregateEnd(lines, i + 1, count, found)

\* the function pattern matches a declaration that runs from its `function`
\* keyword to a '{' through name, parameter list, qualifier words and return
\* clause only: the parameter text holds no ')' and the header ends in '{'
HeaderMatches(l) ==
  l.k = "function" /\ l.body /\ ~Contains(l.params, ")")

\* (external|public|internal|private)? is tried right after the parameter
\* list and (view|pure|payable)? right after it; every later qualifier word is
\* swallowed by [\w\s,()]*?
ParsedVisibility(quals) ==
  IF quals # <<>> /\ quals[1] \in Visibilities THEN quals[1] ELSE "public"

ParsedMutability(quals) ==
  LET rest == IF quals # <<>> /\ quals[1] \in Visibilities THEN Tail(quals)
              ELSE quals
  IN IF rest # <<>> /\ rest[1] \in Mutabilities THEN rest[1] ELSE "nonpayable"

\* parseFunction(lines, startIndex): <<record>> or <<>> (null).  The pattern
\* is searched in the whole aggregated text, so it matches the first
\* declaration of the aggregate that it can match
parseFunction(lines, startIndex) ==
  LET last_ == AggregateEnd(lines, startIndex, 0, FALSE)
      hits == {j \in startIndex..last_ : HeaderMatches(lines[j])}
  IN IF hits = {} THEN <<>>
     ELSE LET j == CHOOSE x \in hits : \A y \in hits : x <= y
              l == lines[j]
          IN <<[name |-> l.name,
                visibility |-> ParsedVisibility(l.quals),
                stateMutability |-> ParsedMutability(l.quals),
                parameters |-> Trim(l.params),
                returnType |-> Trim(l.ret),
                natspec |-> extractNatspecForLine(lines, startIndex),
                lineNumber |-> startIndex]>>

\* parseFunctions: one parseFunction per line that starts with `function `
parseFunctions(lines) ==
  Flatten([i \in DOMAIN lines |->
             IF lines[i].k = "function" THEN parseFunction(lines, i) ELSE <<>>])

\* one mutant of parseEvents: each match is put in front of the earlier ones
parseEvents_NewestFirst(lines) ==
  LET RECURSIVE Collect(_)
      Collect(i) ==
        IF i > Len(lines) THEN <<>>
        ELSE Collect(i + 1) \o
             (IF lines[i].k = "event"
                THEN <<[name |-> lines[i].name, parameters |-> lines[i].params,
                        natspec |-> extractNatspecForLine(lines, i),
                        lineNumber |-> i]>>
                ELSE <<>>)
  IN Collect(1)

\* parseEvents / parseErrors: one record per `event Name(...);` line
parseEvents(lines) ==
  Flatten([i \in DOMAIN lines |->
             IF lines[i].k = "event"
               THEN <<[name |-> lines[i].name, parameters |-> lines[i].params,
                       natspec |-> extractNatspecForLine(lines, i),
                       lineNumber |-> i]>>
               ELSE <<>>])

parseErrors(lines) ==
  Flatten([i \in DOMAIN lines |->
             IF lines[i].k = "error"
               THEN <<[name |-> lines[i].name, parameters |-> lines[i].params,
                       natspec |-> extractNatspecForLine(lines, i),
                       lineNumber |-> i]>>
               ELSE <<>>])

\* the variable pattern puts no word boundary after (public|internal|private)
\* or (constant|immutable), and \s* lets the name follow at once: a word that
\* begins with such a keyword is read as the keyword and the rest of the word
SplitKeyword(w) ==
  CASE w = "publicKey" -> <<"public", "Key">>
    [] w = "constantValue" -> <<"constant", "Value">>
    [] OTHER -> <<w>>

VariableVisibilities == {"public", "internal", "private"}
VariableModifiers == {"constant", "immutable"}

\* the match of (type)\s+(vis)?\s*(mod)?\s*(\w+)\s*(?:=|;) on the words
\* between the type and the '=' or ';': <<[visibility, modifier, name]>>, or
\* <<>> when the pattern does not match
VariableMatch(words) ==
  LET e == Flatten([i \in DOMAIN words |-> SplitKeyword(words[i])]) IN
  CASE Len(e) = 3 /\ e[1] \in VariableVisibilities /\ e[2] \in VariableModifiers ->
         <<[visibility |-> e[1], modifier |-> e[2], name |-> e[3]]>>
    [] Len(e) = 2 /\ e[1] \in VariableVisibilities ->
         <<[visibility |-> e[1], modifier |-> "", name |-> e[2]]>>
    [] Len(e) = 2 /\ e[1] \in VariableModifiers ->
         <<[visibility |-> "internal", modifier |-> e[1], name |-> e[2]]>>
    [] Len(e) = 1 ->
         <<[visibility |-> "internal", modifier |-> "", name |-> e[1]]>>
    [] OTHER -> <<>>

\* parseVariables: a match is dropped when its source line holds `function`
\* or a '('
parseVariables(lines) ==
  Flatten([i \in DOMAIN lines |->
    IF lines[i].k # "var" THEN <<>>
    ELSE LET m == VariableMatch(lines[i].words) IN
      IF m = <<>> \/ lines[i].paren \/ Contains(lines[i].type, "(") THEN <<>>
      ELSE <<[name |-> m[1].name,
              type |-> lines[i].type,
              visibility |-> m[1].visibility,
              isConstant |-> m[1].modifier \in VariableModifiers,
              natspec |-> extractNatspecForLine(lines, i),
              lineNumber |-> i]>>])

----------------------------------------------------------------------------
(* InclusionPolicy                                                         *)

shouldIncludeFunction(g, func) ==
  IF func.name \in g.includeDirectives THEN TRUE
  ELSE IF func.name \in g.excludeDirectives THEN FALSE
  ELSE func.visibility \in {"external", "public"}

shouldIncludeEvent(g, event) == event.name \notin g.excludeDirectives

shouldIncludeError(g, error) == error.name \notin g.excludeDirectives

\* one mutant of the getter condition: the exclude set also silences a
\* getter directive
WantsGetter_ExcludeWins(g, variable) ==
  /\ variable.name \notin g.excludeDirectives
  /\ (variable.name \in g.getterDirectives \/ variable.visibility = "public")

\* the condition of generateGetterFunctions
WantsGetter(g, variable) ==
  \/ variable.name \in g.getterDirectives
  \/ (variable.visibility = "public" /\ variable.name \notin g.excludeDirectives)

----------------------------------------------------------------------------
(* InterfaceAssembler                                                      *)

Indent == <<" ", " ", " ", " ">>

\* the text of one doc line as formatNatspec prints it
RECURSIVE SpacedWords(_)
SpacedWords(ws) ==
  IF ws = <<>> THEN <<>> ELSE <<" ", Head(ws)>> \o SpacedWords(Tail(ws))

NatspecLineText(l) ==
  CASE l.k = "doc" -> <<"///">> \o SpacedWords(l.t)
    [] l.k = "blockOpen" -> <<"/**">>
    [] l.k = "blockMid" -> <<"*">> \o SpacedWords(l.t)
    [] l.k = "blockEnd" -> <<"*/">>
    [] l.k = "blockOne" -> <<"/**">> \o SpacedWords(l.t) \o <<" ", "*/">>
    [] OTHER -> <<>>

\* formatNatspec(natspec, '    ') + '\n' as one text
RECURSIVE NatspecText(_)
NatspecText(ns) ==
  IF ns = <<>> THEN <<>>
  ELSE Indent \o NatspecLineText(Head(ns)) \o <<"\n">> \o NatspecText(Tail(ns))

\* variable.type.match(/mapping\((.+?)\s*=>\s*(.+?)\)/): <<key, value>> texts
MappingParts(type) ==
  LET arrow == FirstIndex(type, LAMBDA c : c = "=>")
      closer == FirstIndex(type, LAMBDA c : c = ")")
  IN IF Len(type) >= 2 /\ type[2] = "(" /\ arrow > 3 /\ closer > arrow + 1
       THEN <<TrimRight(SubSeq(type, 3, arrow - 1)),
              TrimLeft(SubSeq(type, arrow + 1, closer - 1))>>
       ELSE <<>>

\* the getter line built for one variable, doc block included, before type
\* substitution
GetterText(variable) ==
  LET doc == SelectSeq(variable.natspec, LAMBDA l : ~IsBlank(l))
      stateMutability == IF variable.isConstant THEN "pure" ELSE "view"
      tail == <<" ", "external", " ", stateMutability, " ", "returns", " ", "(">>
      parts == MappingParts(variable.type)
  IN NatspecText(doc) \o
     (IF variable.type[1] = "mapping"
        THEN IF parts = <<>> THEN <<>>
             ELSE Indent \o <<"function", " ", variable.name, "(">> \o parts[1]
                  \o <<" ", "key", ")">> \o tail \o parts[2] \o <<")", ";">>
        ELSE Indent \o <<"function", " ", variable.name, "(", ")">> \o tail
             \o variable.type \o <<")", ";">>)

\* generateGetterFunctions; each getter keeps the name of its variable and
\* the mutability it was given, beside its text
generateGetterFunctions(g, variables) ==
  LET wanted == SelectSeq(variables, LAMBDA v : WantsGetter(g, v))
  IN [i \in DOMAIN wanted |->
        [k |-> "getter", var |-> wanted[i].name, line |-> wanted[i].lineNumber,
         mutability |-> IF wanted[i].isConstant THEN "pure" ELSE "view",
         text |-> GetterText(wanted[i])]]

\* one mutant of the inheritance rewrite: replace is applied before remove
ProcessedInheritance_ReplaceFirst(g, inheritance) ==
  LET inheritanceList == InheritanceList(inheritance)
      mapped == [i \in DOMAIN inheritanceList |->
                   IF MapHas(g.replaceDirectives, inheritanceList[i])
                     THEN MapGet(g.replaceDirectives, inheritanceList[i])
                     ELSE inheritanceList[i]]
  IN SelectSeq(mapped, LAMBDA c : c \notin g.removeDirectives)

\* the header's bases: filter out the removed, then map through the replace
\* map (replaceDirectives.get(contract) || contract)
ProcessedInheritance(g, inheritance) ==
  LET inheritanceList == InheritanceList(inheritance)
      kept == SelectSeq(inheritanceList, LAMBDA c : c \notin g.removeDirectives)
  IN [i \in DOMAIN kept |->
        IF MapHas(g.replaceDirectives, kept[i])
          THEN MapGet(g.replaceDirectives, kept[i]) ELSE kept[i]]

\* allInheritedInterfaces
AllInheritedInterfaces(g, contract) ==
  (IF contract.inheritance # <<>>
     THEN ProcessedInheritance(g, contract.inheritance) ELSE <<>>)
  \o g.isDirectives

\* a declaration with its doc block above it
WithNatspec(natspec, decl) == formatNatspec(natspec, Indent) \o <<decl>>

EventLines(g, events, kind) ==
  Flatten([i \in DOMAIN events |->
    WithNatspec(events[i].natspec,
                [k |-> kind, name |-> events[i].name,
                 params |-> applyTypeReplacements(events[i].parameters,
                                                  g.replaceDirectives)])])

FunctionLines(g, functions) ==
  Flatten([i \in DOMAIN functions |->
    WithNatspec(functions[i].natspec,
      [k |-> "function",
       name |-> functions[i].name,
       line |-> functions[i].lineNumber,
       params |-> applyTypeReplacements(functions[i].parameters,
                                        g.replaceDirectives),
       visibility |-> "external",
       stateMutability |-> IF functions[i].stateMutability # "nonpayable"
                             THEN functions[i].stateMutability ELSE "",
       returns |-> IF functions[i].returnType # <<>>
                     THEN applyTypeReplacements(functions[i].returnType,
                                                g.replaceDirectives)
                     ELSE <<>>])])

Blank == [k |-> "blank"]

\* allInheritedInterfaces.join(', ')
RECURSIVE JoinComma(_)
JoinComma(names) ==
  IF names = <<>> THEN <<>>
  ELSE IF Len(names) = 1 THEN <<names[1]>>
  ELSE <<names[1], ",", " ">> \o JoinComma(Tail(names))

\* interfaceInheritance: ' is ' and the joined names, or the empty string
InterfaceInheritance(names) ==
  IF Len(names) > 0 THEN <<" ", "is", " ">> \o JoinComma(names) ELSE <<>>

\* generateInterface: [ok, error, out].  ok = FALSE stands for a throw, with
\* its message in error
generateInterface(g) ==
  IF g.buildPath = NoPath
    THEN [ok |-> FALSE, error |-> "No build directive found", out |-> <<>>]
  ELSE
    LET functions == parseFunctions(g.lines)
        events == parseEvents(g.lines)
        errors == parseErrors(g.lines)
        variables == parseVariables(g.lines)
        contract == parseContract(g.lines)
    IN IF ~contract.found
         THEN [ok |-> FALSE, error |-> "Contract declaration not found",
               out |-> <<>>]
       ELSE
         LET includedEvents ==
               SelectSeq(events, LAMBDA e : shouldIncludeEvent(g, e))
             includedErrors ==
               SelectSeq(errors, LAMBDA e : shouldIncludeError(g, e))
             getters == generateGetterFunctions(g, variables)
             getterFunctions ==
               [i \in DOMAIN getters |->
                  [getters[i] EXCEPT
                     !.text = applyTypeReplacements(@, g.replaceDirectives)]]
             includedFunctions ==
               SelectSeq(functions, LAMBDA f : shouldIncludeFunction(g, f))
         IN [ok |-> TRUE, error |-> "",
             out |->
               <<[k |-> "spdx"], [k |-> "pragma"], Blank>>
               \o (IF g.copyrightNotice # <<>>
                     THEN <<[k |-> "copyright", t |-> g.copyrightNotice], Blank>>
                     ELSE <<>>)
               \o [i \in DOMAIN g.importDirectives |->
                     [k |-> "import", path |-> g.importDirectives[i]]]
               \o (IF Len(g.importDirectives) > 0 THEN <<Blank>> ELSE <<>>)
               \o formatNatspec(contract.natspec, <<>>)
               \o <<[k |-> "interface", name |-> <<"I", contract.name>>,
                     inheritance |->
                       InterfaceInheritance(AllInheritedInterfaces(g, contract))],
                    Blank>>
               \o EventLines(g, includedEvents, "event")
               \o (IF Len(includedEvents) > 0 THEN <<Blank>> ELSE <<>>)
               \o EventLines(g, includedErrors, "error")
               \o (IF Len(includedErrors) > 0 THEN <<Blank>> ELSE <<>>)
               \o getterFunctions
               \o (IF Len(getterFunctions) > 0 THEN <<Blank>> ELSE <<>>)
               \o FunctionLines(g, includedFunctions)
               \o <<[k |-> "close"]>>]

----------------------------------------------------------------------------
(* The `/// !interface` generator of buildInterface.ts, where it differs   *)
(* from the `/// @custom:interface` one.  For the directive kinds both     *)
(* accept (build with one bare path, copyright, quoted import, replace,    *)
(* remove, exclude, include, getter, is) its parseDirectiveContent and     *)
(* storeDirective are the same statements, so it starts from the same      *)
(* directive state.                                                        *)

\* the types its variable pattern knows
VariantTypes == {"uint256", "string", "address", "bool", "bytes32", "mapping"}

\* the match of (type)\s+(vis)?\s*(constant)?\s+(\w+): whitespace must stand
\* directly before the name, so a name needs a keyword before it, and
\* `immutable` is read as the name
VariantVariableMatch(words) ==
  CASE Len(words) >= 3 /\ words[1] \in VariableVisibilities
         /\ words[2] = "constant" ->
         <<[visibility |-> words[1], isConstant |-> TRUE, name |-> words[3]]>>
    [] Len(words) >= 2 /\ words[1] \in VariableVisibilities ->
         <<[visibility |-> words[1], isConstant |-> FALSE, name |-> words[2]]>>
    [] Len(words) >= 2 /\ words[1] = "constant" ->
         <<[visibility |-> "internal", isConstant |-> TRUE, name |-> words[2]]>>
    [] OTHER -> <<>>

VariantParseVariables(lines) ==
  Flatten([i \in DOMAIN lines |->
    IF lines[i].k # "var" \/ lines[i].type[1] \notin VariantTypes THEN <<>>
    ELSE LET m == VariantVariableMatch(lines[i].words) IN
      IF m = <<>> \/ lines[i].paren \/ Contains(lines[i].type, "(") THEN <<>>
      ELSE <<[name |-> m[1].name,
              type |-> lines[i].type,
              visibility |-> m[1].visibility,
              isConstant |-> m[1].isConstant,
              natspec |-> extractNatspecForLine(lines, i),
              lineNumber |-> i]>>])

\* its getters are always `external view`
VariantGenerateGetterFunctions(g, variables) ==
  LET wanted == SelectSeq(variables, LAMBDA v : WantsGetter(g, v))
  IN [i \in DOMAIN wanted |->
        [k |-> "getter", var |-> wanted[i].name, line |-> wanted[i].lineNumber,
         mutability |-> "view",
         text |-> GetterText([wanted[i] EXCEPT !.isConstant = FALSE])]]

\* its generateInterface: the same assembly, with parameters, return types
\* and getters printed as parsed (there is no applyTypeReplacements)
VariantGenerateInterface(g) ==
  IF g.buildPath = NoPath
    THEN [ok |-> FALSE, error |-> "No build directive found", out |-> <<>>]
  ELSE
    LET functions == parseFunctions(g.lines)
        events == parseEvents(g.lines)
        errors == parseErrors(g.lines)
        variables == VariantParseVariables(g.lines)
        contract == parseContract(g.lines)
        asParsed == [g EXCEPT !.replaceDirectives = <<>>]
    IN IF ~contract.found
         THEN [ok |-> FALSE, error |-> "Contract declaration not found",
               out |-> <<>>]
       ELSE
         LET includedEvents ==
               SelectSeq(events, LAMBDA e : shouldIncludeEvent(g, e))
             includedErrors ==
               SelectSeq(errors, LAMBDA e : shouldIncludeError(g, e))
             getterFunctions == VariantGenerateGetterFunctions(g, variables)
             includedFunctions ==
               SelectSeq(functions, LAMBDA f : shouldIncludeFunction(g, f))
         IN [ok |-> TRUE, error |-> "",
             out |->
               <<[k |-> "spdx"], [k |-> "pragma"], Blank>>
               \o (IF g.copyrightNotice # <<>>
                     THEN <<[k |-> "copyright", t |-> g.copyrightNotice], Blank>>
                     ELSE <<>>)
               \o [i \in DOMAIN g.importDirectives |->
                     [k |-> "import", path |-> g.importDirectives[i]]]
               \o (IF Len(g.importDirectives) > 0 THEN <<Blank>> ELSE <<>>)
               \o formatNatspec(contract.natspec, <<>>)
               \o <<[k |-> "interface", name |-> <<"I", contract.name>>,
                     inheritance |->
                       InterfaceInheritance(AllInheritedInterfaces(g, contract))],
                    Blank>>
               \o EventLines(asParsed, includedEvents, "event")
               \o (IF Len(includedEvents) > 0 THEN <<Blank>> ELSE <<>>)
               \o EventLines(asParsed, includedErrors, "error")
               \o (IF Len(includedErrors) > 0 THEN <<Blank>> ELSE <<>>)
               \o getterFunctions
               \o (IF Len(getterFunctions) > 0 THEN <<Blank>> ELSE <<>>)
               \o FunctionLines(asParsed, includedFunctions)
               \o <<[k |-> "close"]>>]

----------------------------------------------------------------------------
(* The file system and the file-writing step                               *)

NoFile == [exists |-> FALSE, mtime |-> 0, data |-> <<>>]

\* every file of the model lives in one directory; path.resolve of a relative
\* path against it gives the path itself, and of '' gives the directory
ContractDir == <<".">>

ResolvePath(p) == IF p = NoPath THEN ContractDir ELSE p

Exists(files, p) == p \in DOMAIN files /\ files[p].exists

\* fs.writeFileSync at time now; creating a file also stamps its directory
WriteFile(files, p, data, now) ==
  [q \in DOMAIN files |->
     IF q = p THEN [exists |-> TRUE, mtime |-> now, data |-> data]
     ELSE IF q = ContractDir /\ ~files[p].exists
       THEN [files[q] EXCEPT !.mtime = now]
     ELSE files[q]]

FlagWords == {W("--remove"), W("--replace"), W("--is"), W("--import")}

NoFlags == [remove |-> <<>>, replace |-> <<>>, is |-> <<>>, import |-> <<>>]

\* flags.match(/--remove\s+(\w+)(?:\s|$)/g)
RECURSIVE RemoveFlags(_, _)
RemoveFlags(flags, i) ==
  IF i + 1 > Len(flags) THEN <<>>
  ELSE IF /\ flags[i] = W("--remove")
          /\ IsBare(flags[i + 1]) /\ IsIdent(TokText(flags[i + 1]))
    THEN <<TokText(flags[i + 1])>> \o RemoveFlags(flags, i + 2)
    ELSE RemoveFlags(flags, i + 1)

\* flags.match(/--replace\s+(\w+)\s+with\s+(\w+)(?:\s|$)/g), set in order
RECURSIVE ReplaceFlags(_, _, _)
ReplaceFlags(flags, i, map) ==
  IF i + 3 > Len(flags) THEN map
  ELSE IF /\ flags[i] = W("--replace")
          /\ IsBare(flags[i + 1]) /\ IsIdent(TokText(flags[i + 1]))
          /\ flags[i + 2] = W("with")
          /\ IsBare(flags[i + 3]) /\ IsIdent(TokText(flags[i + 3]))
    THEN ReplaceFlags(flags, i + 4,
                      MapSet(map, TokText(flags[i + 1]), TokText(flags[i + 3])))
    ELSE ReplaceFlags(flags, i + 1, map)

\* the tokens from position i up to the next flag word
RECURSIVE UpToNextFlag(_, _)
UpToNextFlag(flags, i) ==
  IF i > Len(flags) \/ flags[i] \in FlagWords THEN <<>>
  ELSE <<flags[i]>> \o UpToNextFlag(flags, i + 1)

\* flags.match(/--is\s+([^-]+)(?:--|$)/): no g flag, so the first match only
IsFlags(flags) ==
  LET at == FirstIndex([i \in DOMAIN flags |->
                          /\ flags[i] = W("--is")
                          /\ i < Len(flags)
                          /\ flags[i + 1] \notin FlagWords],
                       LAMBDA b : b)
  IN IF at = 0 THEN <<>>
     ELSE SelectSeq(SplitCommas(SplitWords(UpToNextFlag(flags, at + 1)), ""),
                    LAMBDA n : n # "")

\* flags.match(/--import\s+(?:"([^"]+)"|(\S+))(?:\s|$)/g)
RECURSIVE ImportFlags(_, _)
ImportFlags(flags, i) ==
  IF i + 1 > Len(flags) THEN <<>>
  ELSE IF flags[i] = W("--import")
    THEN <<Tail(flags[i + 1])>> \o ImportFlags(flags, i + 2)
    ELSE ImportFlags(flags, i + 1)

parseModuleFlags(flags) ==
  IF flags = <<>> THEN NoFlags
  ELSE [remove |-> RemoveFlags(flags, 1),
        replace |-> ReplaceFlags(flags, 1, <<>>),
        is |-> IsFlags(flags),
        import |-> ImportFlags(flags, 1)]

RECURSIVE SetAll(_, _)
SetAll(map, pairs) ==
  IF pairs = <<>> THEN map
  ELSE SetAll(MapSet(map, Head(pairs)[1], Head(pairs)[2]), Tail(pairs))

RECURSIVE PushNew(_, _)
PushNew(list, items) ==
  IF items = <<>> THEN list
  ELSE PushNew(IF Contains(list, Head(items)) THEN list
               ELSE Append(list, Head(items)), Tail(items))

\* applyModuleFlags(generator, moduleFlags): the generator after the overlay
applyModuleFlags(generator, moduleFlags) ==
  [generator EXCEPT
     !.removeDirectives = @ \cup Range(moduleFlags.remove),
     !.replaceDirectives = SetAll(@, moduleFlags.replace),
     !.isDirectives = @ \o moduleFlags.is,
     !.importDirectives = PushNew(@, moduleFlags.import)]

\* one mutant of processModuleDirective: the temporary generator is written
\* with its own module loop (the first module directive of the module file is
\* carried out too) instead of being rendered only
processModuleDirective_Nested(g, moduleDirective, files, now) ==
  LET moduleFlags == parseModuleFlags(moduleDirective.flags)
      resolvedModulePath == ResolvePath(moduleDirective.from)
  IN IF ~Exists(files, resolvedModulePath)
       THEN [ok |-> FALSE, error |-> "Module file not found", files |-> files]
     ELSE
       LET tempGenerator ==
             [applyModuleFlags(NewGenerator(resolvedModulePath, g.force, files),
                               moduleFlags)
                EXCEPT !.buildPath = moduleDirective.to]
           resolvedOutputPath == ResolvePath(moduleDirective.to)
           inner == tempGenerator.moduleDirectives
           nested ==
             IF inner = <<>> \/ ~Exists(files, ResolvePath(inner[1].from))
               THEN files
               ELSE LET c == generateInterface(
                               [NewGenerator(ResolvePath(inner[1].from),
                                             g.force, files)
                                  EXCEPT !.buildPath = inner[1].to])
                    IN IF c.ok
                         THEN WriteFile(files, ResolvePath(inner[1].to),
                                        c.out, now)
                         ELSE files
       IN Bind(generateInterface(tempGenerator), LAMBDA interfaceContent :
            IF ~interfaceContent.ok
              THEN [ok |-> FALSE, error |-> interfaceContent.error,
                    files |-> nested]
              ELSE [ok |-> TRUE, error |-> "",
                    files |-> WriteFile(nested, resolvedOutputPath,
                                        interfaceContent.out, now)])

\* one mutant of processModuleDirective: the generator for the module file
\* starts from the directive state of the primary generator
processModuleDirective_OwnerDirectives(g, moduleDirective, files, now) ==
  LET moduleFlags == parseModuleFlags(moduleDirective.flags)
      resolvedModulePath == ResolvePath(moduleDirective.from)
  IN IF ~Exists(files, resolvedModulePath)
       THEN [ok |-> FALSE, error |-> "Module file not found", files |-> files]
     ELSE
       LET tempGenerator ==
             [applyModuleFlags([g EXCEPT
                                  !.contractPath = resolvedModulePath,
                                  !.lines = files[resolvedModulePath].data],
                               moduleFlags)
                EXCEPT !.buildPath = moduleDirective.to]
           resolvedOutputPath == ResolvePath(moduleDirective.to)
       IN Bind(tempGenerator, LAMBDA temp :
            Bind(generateInterface(temp), LAMBDA interfaceContent :
              IF ~interfaceContent.ok
                THEN [ok |-> FALSE, error |-> interfaceContent.error,
                      files |-> files]
                ELSE [ok |-> TRUE, error |-> "",
                      files |-> WriteFile(files, resolvedOutputPath,
                                          interfaceContent.out, now)]))

\* processModuleDirective(moduleDirective) at time now: [ok, error, files].
\* ok = FALSE stands for a throw; nothing has been written then
processModuleDirective(g, moduleDirective, files, now) ==
  LET moduleFlags == parseModuleFlags(moduleDirective.flags)
      resolvedModulePath == ResolvePath(moduleDirective.from)
  IN IF ~Exists(files, resolvedModulePath)
       THEN [ok |-> FALSE, error |-> "Module file not found", files |-> files]
     ELSE
       LET tempGenerator ==
             [applyModuleFlags(NewGenerator(resolvedModulePath, g.force, files),
                               moduleFlags)
                EXCEPT !.buildPath = moduleDirective.to]
           resolvedOutputPath == ResolvePath(moduleDirective.to)
       IN Bind(tempGenerator, LAMBDA temp :
            Bind(generateInterface(temp), LAMBDA interfaceContent :
              IF ~interfaceContent.ok
                THEN [ok |-> FALSE, error |-> interfaceContent.error,
                      files |-> files]
                ELSE [ok |-> TRUE, error |-> "",
                      files |-> WriteFile(files, resolvedOutputPath,
                                          interfaceContent.out, now)]))

\* one mutant of the module loop: the first directive that throws ends the
\* loop
RECURSIVE ProcessModules_StopAtFailure(_, _, _, _)
ProcessModules_StopAtFailure(g, i, files, now) ==
  IF i > Len(g.moduleDirectives) THEN files
  ELSE Bind(processModuleDirective(g, g.moduleDirectives[i], files, now),
            LAMBDA r : IF r.ok
                         THEN ProcessModules_StopAtFailure(g, i + 1, r.files,
                                                           now)
                         ELSE files)

\* the module loop of writeInterface: every directive in turn, a throw caught
\* and logged
RECURSIVE ProcessModules(_, _, _, _)
ProcessModules(g, i, files, now) ==
  IF i > Len(g.moduleDirectives) THEN files
  ELSE Bind(processModuleDirective(g, g.moduleDirectives[i], files, now).files,
            LAMBDA after : ProcessModules(g, i + 1, after, now))

\* one mutant of the up-to-date test: an output as old as its source counts
\* as up to date
UpToDate_OrEqual(g, files, outputPath) ==
  /\ ~g.force
  /\ Exists(files, outputPath)
  /\ files[outputPath].mtime >= files[g.contractPath].mtime

\* if (!this.force && fs.existsSync(outputPath)) { ... if (interfaceStat.mtime
\* > contractStat.mtime) return 'skipped' }
UpToDate(g, files, outputPath) ==
  /\ ~g.force
  /\ Exists(files, outputPath)
  /\ files[outputPath].mtime > files[g.contractPath].mtime

\* one mutant of writeInterface: the rendered inheritance list is pushed into
\* this.isDirectives while the interface is written
writeInterface_KeepsInheritance(g, files, now) ==
  LET c == generateInterface(g) IN
  IF ~c.ok
    THEN [status |-> "error", error |-> c.error, files |-> files, self |-> g,
          out |-> <<>>, seen |-> files, attempted |-> TRUE]
    ELSE [status |-> "generated", error |-> "",
          files |-> WriteFile(files, ResolvePath(g.buildPath), c.out, now),
          self |-> [g EXCEPT !.isDirectives = @ \o <<"IA">>],
          out |-> c.out, seen |-> files, attempted |-> TRUE]

\* writeInterface() at time now.  status is 'generated', 'skipped' or "error"
\* (a throw); files is the file system and self the generator after the call;
\* seen is the file system as the up-to-date test saw it; attempted tells that
\* generateInterface was called
writeInterface(g, files, now) ==
  LET outputPath == ResolvePath(g.buildPath) IN
  Bind(ProcessModules(g, 1, files, now), LAMBDA afterModules :
    IF UpToDate(g, afterModules, outputPath)
      THEN [status |-> "skipped", error |-> "", files |-> afterModules,
            self |-> g, out |-> <<>>, seen |-> afterModules,
            attempted |-> FALSE]
    ELSE
      Bind(generateInterface(g), LAMBDA interfaceContent :
        IF ~interfaceContent.ok
          THEN [status |-> "error", error |-> interfaceContent.error,
                files |-> afterModules, self |-> g, out |-> <<>>,
                seen |-> afterModules, attempted |-> TRUE]
          ELSE [status |-> "generated", error |-> "",
                files |-> WriteFile(afterModules, outputPath,
                                    interfaceContent.out, now),
                self |-> g, out |-> interfaceContent.out,
                seen |-> afterModules, attempted |-> TRUE]))

----------------------------------------------------------------------------
(* The files of the model                                                  *)

SrcP == <<"P.sol">>
SrcM == <<"M.sol">>
OutP == <<"IP.sol">>
OutM == <<"IM.sol">>

Paths == {ContractDir, SrcP, SrcM, OutP, OutM}

BuildDir(p) == DirLine("build", <<W(p)>>)

\* function f() external {
PlainFunction(name) == FunctionLine(name, <<>>, <<"external">>, <<>>, TRUE)

\* a module file: it carries a build directive of its own
ModuleSource ==
  <<BuildDir("IP.sol"),
    DocLine(<<"a", "module">>),
    HeaderLine("Mod", <<"A", " ">>),
    PlainFunction("g"), CloseLine, CloseLine>>

\* the primary sources of the file-system specification
PrimarySources ==
  { \* a build directive, a header, one function
    <<BuildDir("IP.sol"), HeaderLine("Lock", <<>>), PlainFunction("f"),
      CloseLine, CloseLine>>,
    \* the same with a module directive and rewriting directives
    <<DirLine("module", <<Q("M.sol"), W("to"), Q("IM.sol"),
                          W("--remove"), W("A")>>),
      BuildDir("IP.sol"),
      HeaderLine("Lock", <<"A", ",", " ", "B", " ">>),
      DirLine("replace", <<W("A"), W("with"), W("IA")>>),
      DirLine("is", <<W("C")>>),
      PlainFunction("f"), CloseLine, CloseLine>>,
    \* a module directive whose output is the primary output
    <<DirLine("module", <<Q("M.sol"), W("to"), Q("IP.sol")>>),
      BuildDir("IP.sol"), HeaderLine("Lock", <<>>), PlainFunction("f"),
      CloseLine, CloseLine>>,
    \* no build directive (an unrecognised directive instead)
    <<DirLine("biuld", <<W("IP.sol")>>), HeaderLine("Lock", <<>>),
      PlainFunction("f"), CloseLine, CloseLine>>,
    \* no contract header
    <<BuildDir("IP.sol"), PlainFunction("f"), CloseLine>>,
    \* a build directive that names no single path
    <<DirLine("build", <<W("my"), W("IP.sol")>>), HeaderLine("Lock", <<>>),
      PlainFunction("f"), CloseLine, CloseLine>>,
    \* no contract header, and a module directive whose output is the
    \* primary output
    <<DirLine("module", <<Q("M.sol"), W("to"), Q("IP.sol")>>),
      BuildDir("IP.sol"), PlainFunction("f"), CloseLine>> }

Stale == <<[k |-> "stale"]>>

File(mtime, data) == [exists |-> TRUE, mtime |-> mtime, data |-> data]

----------------------------------------------------------------------------
(* Actions                                                                 *)

Call(op, force, status, error, out, before, seen, attempted) ==
  [op |-> op, force |-> force, status |-> status, error |-> error,
   out |-> out, before |-> before, seen |-> seen, attempted |-> attempted]

NoCall(files) == Call("none", FALSE, "", "", <<>>, files, files, FALSE)

NoPrev ==
  [valid |-> FALSE, force |-> FALSE, src |-> <<>>, out |-> <<>>, runs |-> 0]

\* the record of one more generation of src: runs counts the generations of
\* the same source with the same force flag in a row
Generated(force, src, out) ==
  [valid |-> TRUE, force |-> force, src |-> src, out |-> out,
   runs |-> IF prev.valid /\ prev.force = force /\ prev.src = src
              THEN IF prev.runs < MaxRuns THEN prev.runs + 1 ELSE MaxRuns
              ELSE 1]

\* no command-line run
NoRun ==
  [pc |-> "idle", mode |-> "", force |-> FALSE, contractFiles |-> <<>>,
   next |-> 1, attempted |-> <<>>, successCount |-> 0, skippedCount |-> 0,
   errorCount |-> 0, compile |-> FALSE]

\* new InterfaceGenerator(contractPath, force)
Construct(force) ==
  /\ Exists(fs, SrcP)
  /\ gen' = NewGenerator(SrcP, force, fs)
  /\ last' = Call("construct", force, "", "", <<>>, fs, fs, FALSE)
  /\ UNCHANGED <<fs, prev, clock, run>>

\* generator.generateInterface()
GenerateInterface ==
  /\ gen.alive
  /\ \E r \in {generateInterface(gen)} :
       /\ last' = Call("generateInterface", gen.force,
                       IF r.ok THEN "ok" ELSE "error", r.error, r.out,
                       fs, fs, TRUE)
       /\ prev' = IF r.ok THEN Generated(gen.force, gen.lines, r.out) ELSE prev
  /\ UNCHANGED <<fs, gen, clock, run>>

\* generator.writeInterface()
WriteInterface ==
  /\ gen.alive
  /\ \E r \in {writeInterface(gen, fs, clock)} :
       /\ fs' = r.files
       /\ gen' = r.self
       /\ last' = Call("writeInterface", gen.force, r.status, r.error, r.out,
                       fs, r.seen, r.attempted)
       /\ prev' = IF r.status = "generated"
                    THEN Generated(gen.force, gen.lines, r.out)
                    ELSE prev
  /\ UNCHANGED <<clock, run>>

\* time passes
Tick ==
  /\ clock < MaxClock
  /\ clock' = clock + 1
  /\ last' = NoCall(fs)
  /\ UNCHANGED <<fs, gen, prev, run>>

\* the source file is saved again, its text as it was
TouchSource ==
  /\ fs[SrcP].mtime # clock
  /\ fs' = [fs EXCEPT ![SrcP].mtime = clock]
  /\ last' = NoCall(fs')
  /\ UNCHANGED <<gen, prev, clock, run>>

Init ==
  /\ clock = 2
  /\ \E src \in PrimarySources, ms \in 1..2 :
     \E mod \in {NoFile, File(1, ModuleSource)} :
     \E old \in {NoFile, File(1, Stale), File(2, Stale)} :
       fs = [p \in Paths |->
               CASE p = ContractDir -> File(2, <<>>)
                 [] p = SrcP -> File(ms, src)
                 [] p = SrcM -> mod
                 [] p = OutP -> old
                 [] OTHER -> NoFile]
  /\ gen = NoGen
  /\ last = NoCall(fs)
  /\ prev = NoPrev
  /\ run = NoRun

Next ==
  \/ \E force \in BOOLEAN : Construct(force)
  \/ GenerateInterface
  \/ WriteInterface
  \/ Tick
  \/ TouchSource

Spec == Init /\ [][Next]_vars

----------------------------------------------------------------------------
(* Specifications over drawn sources: the generator is constructed on one  *)
(* source file and asked for its interface                                 *)

\* the file system that holds src as the primary source and nothing else
OnlySource(src) ==
  [p \in Paths |->
     CASE p = ContractDir -> File(1, <<>>)
       [] p = SrcP -> File(1, src)
       [] OTHER -> NoFile]

InitOn(sources) ==
  /\ clock = 2
  /\ \E src \in sources : fs = OnlySource(src)
  /\ gen = NoGen
  /\ last = NoCall(fs)
  /\ prev = NoPrev
  /\ run = NoRun

NextGen ==
  \/ \E force \in BOOLEAN : Construct(force)
  \/ GenerateInterface

\* directive and header lines in any order
HeaderAlphabet ==
  { BuildDir("IP.sol"),
    DirLine("build", <<Q("IP.sol")>>),
    DirLine("build", <<W("my"), W("IP.sol")>>),
    DirLine("build", <<>>),
    HeaderLine("Lock", <<>>),
    HeaderLine("Mod", <<"A", " ">>),
    DocLine(<<"the", "contract", "Mod">>),
    PlainFunction("f") }

InitHeader == InitOn(SeqsUpTo(HeaderAlphabet, MaxLines))

SpecHeader == InitHeader /\ [][NextGen]_vars

\* the lines above a function, drawn from every kind the scan tells apart
DocAlphabet ==
  { CodeLine, BlankLine, CommentLine, DocBare,
    DocLine(<<"d1">>), DocLine(<<"d2">>),
    DirLine("exclude", <<W("x")>>) }

DocSources ==
  { <<BuildDir("IP.sol"), HeaderLine("Lock", <<>>)>> \o above
      \o <<PlainFunction("f"), CloseLine, CloseLine>> :
    above \in SeqsUpTo(DocAlphabet, MaxLines) }

InitDoc == InitOn(DocSources)

SpecDoc == InitDoc /\ [][NextGen]_vars

\* function declarations: with a body (and the line that closes it) or
\* without one, the visibility word first or behind another qualifier
FunAlphabet ==
  { <<FunctionLine("f", <<>>, <<"external">>, <<>>, TRUE), CloseLine>>,
    <<FunctionLine("f", <<>>, <<"internal">>, <<>>, TRUE), CloseLine>>,
    <<FunctionLine("f", <<>>, <<"private">>, <<>>, TRUE), CloseLine>>,
    <<FunctionLine("f", <<>>, <<"view", "internal">>, <<"uint256">>, TRUE),
      CloseLine>>,
    <<FunctionLine("f", <<>>, <<"external", "virtual">>, <<>>, FALSE)>>,
    <<FunctionLine("f", <<>>, <<"internal", "virtual">>, <<>>, FALSE)>>,
    <<FunctionLine("g", <<>>, <<"external">>, <<>>, TRUE), CloseLine>>,
    <<FunctionLine("g", <<>>, <<"internal">>, <<>>, TRUE), CloseLine>> }

FunDirectives ==
  { <<>>,
    <<DirLine("include", <<W("f")>>)>>,
    <<DirLine("exclude", <<W("f")>>)>>,
    <<DirLine("include", <<W("f")>>), DirLine("exclude", <<W("f")>>)>> }

FunSources ==
  { <<BuildDir("IP.sol")>> \o dirs \o <<HeaderLine("Lock", <<>>)>>
      \o Flatten(funs) \o <<CloseLine>> :
    dirs \in FunDirectives, funs \in SeqsUpTo(FunAlphabet, MaxFuns) }

InitFun == InitOn(FunSources)

SpecFun == InitFun /\ [][NextGen]_vars

\* inheritance directives below a header with a base list
InheritAlphabet ==
  { DirLine("remove", <<W("A")>>),
    DirLine("remove", <<W("B")>>),
    DirLine("replace", <<W("A"), W("with"), W("IA")>>),
    DirLine("replace", <<W("A"), W("with"), W("B")>>),
    DirLine("replace", <<W("B"), W("with"), W("IB")>>),
    DirLine("is", <<W("C")>>),
    DirLine("is", <<W("A"), W(","), W("C")>>) }

BaseLists ==
  { <<>>,
    <<"A", " ">>,
    <<"A", ",", " ", "B", " ">>,
    <<"B", ",", " ", "A", " ">>,
    <<"A", ",", " ", "A", " ">> }

InheritSources ==
  { <<BuildDir("IP.sol"), HeaderLine("Lock", bases)>> \o dirs \o <<CloseLine>> :
    bases \in BaseLists, dirs \in SeqsUpTo(InheritAlphabet, MaxLines) }

InitInherit == InitOn(InheritSources)

SpecInherit == InitInherit /\ [][NextGen]_vars

\* parameter lists and return clauses that name a replaced type
ParamEntries ==
  { <<"address", " ", "a">>,
    <<"Ownable", " ", "b">>,
    <<"Ownable", "[", "]", " ", "c">>,
    <<"Ownable">> }

RECURSIVE JoinEntries(_)
JoinEntries(entries) ==
  IF entries = <<>> THEN <<>>
  ELSE IF Len(entries) = 1 THEN entries[1]
  ELSE entries[1] \o <<",", " ">> \o JoinEntries(Tail(entries))

ParamLists == {JoinEntries(es) : es \in SeqsUpTo(ParamEntries, MaxParams)}

ReturnClauses ==
  { <<>>, <<"address">>, <<"Ownable">>, <<"Ownable", "[", "]">> }

TypeDeclarations ==
  { FunctionLine("f", p, <<"external">>, r, TRUE) :
      p \in ParamLists, r \in ReturnClauses }
  \cup { EventLine("x", p) : p \in ParamLists }
  \cup { ErrorLine("y", p) : p \in ParamLists }

TypeSources ==
  { <<BuildDir("IP.sol"),
      DirLine("replace", <<W("Ownable"), W("with"), W("IOwnable")>>),
      HeaderLine("Lock", <<>>), d, CloseLine, CloseLine>> :
    d \in TypeDeclarations }

InitTypes == InitOn(TypeSources)

SpecTypes == InitTypes /\ [][NextGen]_vars

\* state variable declarations under getter and exclude directives
VarWords ==
  { <<"x">>, <<"public", "x">>, <<"private", "x">>,
    <<"public", "constant", "x">>, <<"internal", "immutable", "x">>,
    <<"publicKey">>, <<"public", "y">> }

VarAlphabet ==
  { VarLine(<<"uint256">>, w, FALSE) : w \in VarWords }
  \cup { VarLine(<<"mapping", "(", "address", " ", "=>", " ", "uint256", ")">>,
                 <<"public", "x">>, TRUE) }

VarDirectives ==
  { <<>>,
    <<DirLine("getter", <<W("x")>>)>>,
    <<DirLine("exclude", <<W("x")>>)>>,
    <<DirLine("getter", <<W("x")>>), DirLine("exclude", <<W("x")>>)>> }

VarSources ==
  { <<BuildDir("IP.sol")>> \o dirs \o <<HeaderLine("Lock", <<>>)>>
      \o variables \o <<CloseLine>> :
    dirs \in VarDirectives, variables \in SeqsUpTo(VarAlphabet, MaxVars) }

InitVars == InitOn(VarSources)

SpecVars == InitVars /\ [][NextGen]_vars

\* function declarations with a body: every visibility, with and without a
\* mutability word, the mutability word in each place the language allows
MutAlphabet ==
  { <<FunctionLine("f", <<>>, q, <<>>, TRUE), CloseLine>> :
      q \in { <<"external">>, <<"public">>, <<"internal">>,
              <<"external", "view">>, <<"public", "pure">>,
              <<"external", "payable">>, <<"view", "public">>,
              <<"external", "virtual", "view">> } }

MutDirectives == { <<>>, <<DirLine("include", <<W("f")>>)>> }

MutSources ==
  { <<BuildDir("IP.sol")>> \o dirs \o <<HeaderLine("Lock", <<>>)>>
      \o Flatten(funs) \o <<CloseLine>> :
    dirs \in MutDirectives, funs \in SeqsUpTo(MutAlphabet, MaxFuns) }

InitMut == InitOn(MutSources)

SpecMut == InitMut /\ [][NextGen]_vars

\* contract bodies that mix every kind of declaration and the directives
\* that add header lines, in any order
OrderAlphabet ==
  { DirLine("copyright", <<Q("me")>>),
    DirLine("import", <<Q("a.sol")>>),
    DirLine("import", <<W("b.sol")>>),
    EventLine("x", <<>>),
    EventLine("y", <<>>),
    ErrorLine("x", <<>>),
    VarLine(<<"uint256">>, <<"public", "x">>, FALSE),
    PlainFunction("f"),
    PlainFunction("g") }

OrderSources ==
  { <<BuildDir("IP.sol"), DocLine(<<"title">>), DocLine(<<"notice">>),
      HeaderLine("Lock", <<>>)>> \o body \o <<CloseLine>> :
    body \in SeqsUpTo(OrderAlphabet, MaxLines) }

InitOrder == InitOn(OrderSources)

SpecOrder == InitOrder /\ [][NextGen]_vars

\* module directives: a present or an absent module file, the module's own
\* output path or the primary one, with and without inline flags
ModuleAlphabet ==
  { DirLine("module", <<Q("M.sol"), W("to"), Q("IM.sol")>>),
    DirLine("module", <<Q("M.sol"), W("to"), Q("IM.sol"),
                        W("--remove"), W("A"), W("--is"), W("B")>>),
    DirLine("module", <<Q("M.sol"), W("to"), Q("IP.sol"),
                        W("--replace"), W("A"), W("with"), W("IA"),
                        W("--import"), Q("x.sol")>>),
    DirLine("module", <<Q("X.sol"), W("to"), Q("IM.sol")>>) }

\* the rest of the primary file, without and with directives of its own
ModuleOwners ==
  { <<BuildDir("IP.sol"), HeaderLine("Lock", <<>>), PlainFunction("f"),
      CloseLine, CloseLine>>,
    <<BuildDir("IP.sol"),
      DirLine("copyright", <<Q("me")>>),
      DirLine("import", <<Q("a.sol")>>),
      DirLine("remove", <<W("A")>>),
      DirLine("replace", <<W("A"), W("with"), W("IB")>>),
      DirLine("is", <<W("C")>>),
      DirLine("exclude", <<W("g")>>),
      HeaderLine("Lock", <<"A", " ">>), PlainFunction("f"),
      CloseLine, CloseLine>> }

\* the module file: absent, a contract, or a file without a contract header
ModuleFiles ==
  { NoFile, File(1, ModuleSource),
    File(1, <<PlainFunction("g"), CloseLine>>) }

InitModules ==
  /\ clock = 2
  /\ \E mods \in SeqsUpTo(ModuleAlphabet, MaxLines) :
     \E owner \in ModuleOwners, mod \in ModuleFiles :
       fs = [p \in Paths |->
               CASE p = ContractDir -> File(1, <<>>)
                 [] p = SrcP -> File(1, mods \o owner)
                 [] p = SrcM -> mod
                 [] OTHER -> NoFile]
  /\ gen = NoGen
  /\ last = NoCall(fs)
  /\ prev = NoPrev
  /\ run = NoRun

NextModules ==
  \/ \E force \in BOOLEAN : Construct(force)
  \/ WriteInterface

SpecModules == InitModules /\ [][NextModules]_vars

\* quoted paths of module directives: one word, with a space, with the word
\* `to`
QuotedPaths(file) ==
  { <<"q", file>>, <<"q", "my", file>>, <<"q", "to", file>>,
    <<"q", "up", "to", file>> }

InitTask ==
  InitOn({ <<DirLine("module", <<src, W("to"), dst>> \o flags),
             BuildDir("IP.sol"), HeaderLine("Lock", <<>>),
             PlainFunction("f"), CloseLine, CloseLine>> :
           src \in QuotedPaths("M.sol"), dst \in QuotedPaths("IM.sol"),
           flags \in { <<>>, <<W("--remove"), W("A")>>,
                       <<W("--is"), W("B"), W("--import"), Q("x.sol")>> } })

SpecTask == InitTask /\ [][NextGen]_vars

\* sources for both front ends: directives of the kinds both accept, then
\* declarations
FrontDirectives ==
  { DirLine("copyright", <<Q("me")>>),
    DirLine("import", <<Q("a.sol")>>),
    DirLine("replace", <<W("Ownable"), W("with"), W("IOwnable")>>),
    DirLine("remove", <<W("A")>>),
    DirLine("is", <<W("C")>>),
    DirLine("getter", <<W("x")>>),
    DirLine("exclude", <<W("f")>>) }

FrontAlphabet ==
  { <<FunctionLine("f", <<"address", " ", "a">>, <<"external">>, <<"address">>,
                   TRUE), CloseLine>>,
    <<FunctionLine("g", <<"address", " ", "a", ",", " ", "Ownable", " ", "b">>,
                   <<"external">>, <<>>, TRUE), CloseLine>>,
    <<EventLine("x", <<"uint256", " ", "a">>)>>,
    <<VarLine(<<"uint256">>, <<"public", "y">>, FALSE)>>,
    <<VarLine(<<"uint256">>, <<"public", "constant", "y">>, FALSE)>>,
    <<VarLine(<<"uint256">>, <<"x">>, FALSE)>> }

InitFront ==
  InitOn({ <<BuildDir("IP.sol")>> \o dirs
             \o <<HeaderLine("Lock", <<"Ownable", ",", " ", "A", " ">>)>>
             \o Flatten(body) \o <<CloseLine>> :
           dirs \in SeqsUpTo(FrontDirectives, MaxDirs),
           body \in SeqsUpTo(FrontAlphabet, MaxFuns) })

SpecFront == InitFront /\ [][NextGen]_vars

\* the lines of block comments, in any order, above a function
BlockAlphabet ==
  { BlockOpen, BlockMid(<<"m">>), BlockEnd,
    BlockOne(<<"a">>), BlockOne(<<"b">>),
    DocLine(<<"d1">>), BlankLine }

InitBlock ==
  InitOn({ <<BuildDir("IP.sol"), HeaderLine("Lock", <<>>)>> \o above
             \o <<PlainFunction("f"), CloseLine, CloseLine>> :
           above \in SeqsUpTo(BlockAlphabet, MaxLines) })

SpecBlock == InitBlock /\ [][NextGen]_vars

\* declarations in which a parameter, a variable, a function or a word of
\* documentation is spelled like the key of the replace directive
NameAlphabet ==
  { <<FunctionLine("f", <<"address", " ", "Ownable", ",", " ",
                          "Ownable", " ", "b">>,
                   <<"external">>, <<>>, TRUE), CloseLine>>,
    <<FunctionLine("g", <<"Ownable", " ", "a", ",", " ",
                          "uint256", " ", "Ownable">>,
                   <<"external">>, <<"Ownable">>, TRUE), CloseLine>>,
    <<FunctionLine("Ownable", <<>>, <<"external">>, <<"address">>, TRUE),
      CloseLine>>,
    <<DocLine(<<"the", "Ownable", "owner">>),
      FunctionLine("h", <<>>, <<"external">>, <<>>, TRUE), CloseLine>>,
    <<EventLine("x", <<"address", " ", "Ownable", ",", " ",
                       "uint256", " ", "b">>)>>,
    <<DocLine(<<"the", "Ownable", "owner">>),
      VarLine(<<"address">>, <<"public", "owner">>, FALSE)>>,
    <<VarLine(<<"address">>, <<"public", "Ownable">>, FALSE)>> }

InitNames ==
  InitOn({ <<BuildDir("IP.sol"),
             DirLine("replace", <<W("Ownable"), W("with"), W("IOwnable")>>),
             HeaderLine("Lock", <<>>)>> \o Flatten(body) \o <<CloseLine>> :
           body \in SeqsUpTo(NameAlphabet, MaxFuns) })

SpecNames == InitNames /\ [][NextGen]_vars

\* import directives: a quoted and a bare path, without a semicolon, with
\* one written against the path, and with one after a space
ImportAlphabet ==
  { DirLine("import", <<Q("a.sol")>>),
    DirLine("import", <<Q("a.sol"), W(";")>>),
    DirLine("import", <<W("b.sol")>>),
    DirLine("import", <<<<"w", "b.sol", ";">>>>),
    DirLine("import", <<W("b.sol"), W(";")>>),
    DirLine("import", <<Q("c.sol")>>) }

InitImport ==
  InitOn({ <<BuildDir("IP.sol")>> \o imports
             \o <<HeaderLine("Lock", <<>>), PlainFunction("f"),
                  CloseLine, CloseLine>> :
           imports \in SeqsUpTo(ImportAlphabet, MaxLines) })

SpecImport == InitImport /\ [][NextGen]_vars

\* the flags a module directive can carry, one occurrence each
FlagAlphabet ==
  { <<W("--remove"), W("A")>>, <<W("--remove"), W("B")>>,
    <<W("--is"), W("C")>>, <<W("--is"), W("B")>>,
    <<W("--replace"), W("A"), W("with"), W("IA")>>,
    <<W("--replace"), W("B"), W("with"), W("IB")>>,
    <<W("--import"), Q("x.sol")>>, <<W("--import"), W("y.sol")>> }

\* a primary file with one module directive on M.sol and a tail of flags
InitFlags ==
  /\ clock = 2
  /\ \E tail \in SeqsUpTo(FlagAlphabet, MaxLines) :
       fs = [p \in Paths |->
               CASE p = ContractDir -> File(1, <<>>)
                 [] p = SrcP ->
                      File(1, <<DirLine("module",
                                        <<Q("M.sol"), W("to"), Q("IM.sol")>>
                                        \o Flatten(tail)),
                                BuildDir("IP.sol"), HeaderLine("Lock", <<>>),
                                PlainFunction("f"), CloseLine, CloseLine>>)
                 [] p = SrcM -> File(1, ModuleSource)
                 [] OTHER -> NoFile]
  /\ gen = NoGen
  /\ last = NoCall(fs)
  /\ prev = NoPrev
  /\ run = NoRun

SpecFlags == InitFlags /\ [][NextModules]_vars

----------------------------------------------------------------------------
(* The command line: buildAllInterfaces, executeInterfaces and run          *)

\* content.includes('/// @custom:interface build')
HasBuildLiteral(lines) ==
  \E i \in DOMAIN lines : lines[i].k = "dir" /\ lines[i].kw = "build"

\* fs.readdirSync of the contracts directory: the names it yields, in order
DirectoryListing == <<OutM, OutP, SrcM, SrcP>>

\* findContractsWithBuildDirectives: the .sol files that hold the literal
findContractsWithBuildDirectives(files) ==
  SelectSeq(DirectoryListing,
            LAMBDA p : Exists(files, p) /\ HasBuildLiteral(files[p].data))

\* the file lists given on the command line; X.sol does not exist
ExplicitFiles == { <<SrcP>>, <<SrcM, SrcP>>, <<<<"X.sol">>, SrcP>> }

\* `hardhat-build` (mode "build": interfaces, then compile) or
\* `hardhat-build --interfaces` (mode "interfaces"), without file arguments
StartRun(force, mode) ==
  /\ run.pc = "idle"
  /\ run' = [NoRun EXCEPT !.pc = "search", !.mode = mode, !.force = force]
  /\ last' = NoCall(fs)
  /\ UNCHANGED <<fs, gen, prev, clock>>

\* `hardhat-build --interfaces <files>`: the loop runs over the given files
StartFiles(force, contractFiles) ==
  /\ run.pc = "idle"
  /\ run' = [NoRun EXCEPT !.pc = "loop", !.mode = "files", !.force = force,
                          !.contractFiles = contractFiles]
  /\ last' = NoCall(fs)
  /\ UNCHANGED <<fs, gen, prev, clock>>

\* the head of buildAllInterfaces: the search throws when the contracts
\* directory cannot be read, and the caller's catch ends the process; with
\* no file found buildAllInterfaces returns at once
FindContracts ==
  /\ run.pc = "search"
  /\ \E found \in {findContractsWithBuildDirectives(fs)} :
       run' = IF ~Exists(fs, ContractDir) THEN [run EXCEPT !.pc = "exit"]
              ELSE IF found = <<>> THEN [run EXCEPT !.pc = "built"]
              ELSE [run EXCEPT !.pc = "loop", !.contractFiles = found]
  /\ UNCHANGED <<fs, gen, last, prev, clock>>

\* one mutant of the loop body's bookkeeping: a failed file ends the loop
Counted_HaltOnError(contractFile, result) ==
  [run EXCEPT
     !.pc = IF result = "error" THEN "built" ELSE @,
     !.next = @ + 1,
     !.attempted = Append(@, [file |-> contractFile, result |-> result]),
     !.successCount = IF result = "generated" THEN @ + 1 ELSE @,
     !.skippedCount = IF result = "skipped" THEN @ + 1 ELSE @,
     !.errorCount = IF result = "error" THEN @ + 1 ELSE @]

\* the bookkeeping of one loop iteration: result is 'generated', 'skipped'
\* or, for the catch block, "error"
Counted(contractFile, result) ==
  [run EXCEPT
     !.next = @ + 1,
     !.attempted = Append(@, [file |-> contractFile, result |-> result]),
     !.successCount = IF result = "generated" THEN @ + 1 ELSE @,
     !.skippedCount = IF result = "skipped" THEN @ + 1 ELSE @,
     !.errorCount = IF result = "error" THEN @ + 1 ELSE @]

\* one iteration of the for loop: new InterfaceGenerator(contractFile, force)
\* and writeInterface() inside try/catch
BuildOne ==
  /\ run.pc = "loop"
  /\ run.next <= Len(run.contractFiles)
  /\ LET contractFile == run.contractFiles[run.next] IN
     IF ~Exists(fs, contractFile)
       THEN \* fs.readFileSync throws in the constructor
            /\ run' = Counted(contractFile, "error")
            /\ last' = Call("construct", run.force, "error", "ENOENT", <<>>,
                            fs, fs, FALSE)
            /\ UNCHANGED <<fs, gen, prev>>
       ELSE \E g \in {NewGenerator(contractFile, run.force, fs)} :
            \E r \in {writeInterface(g, fs, clock)} :
              /\ run' = Counted(contractFile, r.status)
              /\ fs' = r.files
              /\ gen' = r.self
              /\ last' = Call("writeInterface", run.force, r.status, r.error,
                              r.out, fs, r.seen, r.attempted)
              /\ prev' = IF r.status = "generated"
                           THEN Generated(run.force, g.lines, r.out)
                           ELSE prev
  /\ UNCHANGED clock

\* the loop is over: the summary is printed and the batch returns
Summary ==
  /\ run.pc = "loop"
  /\ run.next > Len(run.contractFiles)
  /\ run' = [run EXCEPT !.pc = "built"]
  /\ UNCHANGED <<fs, gen, last, prev, clock>>

\* one mutant of the compile step: it does not wait for the interfaces
Compile_NoWait ==
  /\ run.pc \in {"search", "loop", "built"}
  /\ run.mode = "build"
  /\ run' = [run EXCEPT !.pc = "done", !.compile = TRUE]
  /\ UNCHANGED <<fs, gen, last, prev, clock>>

\* run(): after buildAllInterfaces has returned, the Hardhat compile step
Compile ==
  /\ run.pc = "built"
  /\ run.mode = "build"
  /\ run' = [run EXCEPT !.pc = "done", !.compile = TRUE]
  /\ UNCHANGED <<fs, gen, last, prev, clock>>

\* the contracts directory is missing, or it holds the primary source, a
\* module file that may be a contract of its own, and possibly an old output
InitBatch ==
  /\ clock = 2
  /\ \/ fs = [p \in Paths |-> NoFile]
     \/ \E src \in PrimarySources, ms \in 1..2 :
        \E mod \in {NoFile, File(1, ModuleSource),
                    File(1, <<BuildDir("IM.sol"), PlainFunction("g"),
                              CloseLine>>)} :
        \E old \in {NoFile, File(2, Stale)} :
          fs = [p \in Paths |->
                  CASE p = ContractDir -> File(2, <<>>)
                    [] p = SrcP -> File(ms, src)
                    [] p = SrcM -> mod
                    [] p = OutP -> old
                    [] OTHER -> NoFile]
  /\ gen = NoGen
  /\ last = NoCall(fs)
  /\ prev = NoPrev
  /\ run = NoRun

NextBatch ==
  \/ \E force \in BOOLEAN, mode \in {"interfaces", "build"} :
       StartRun(force, mode)
  \/ \E force \in BOOLEAN, contractFiles \in ExplicitFiles :
       StartFiles(force, contractFiles)
  \/ FindContracts
  \/ BuildOne
  \/ Summary
  \/ Compile

SpecBatch == InitBatch /\ [][NextBatch]_vars----------------------------------------------------------------------------
(* Claims                                                                  *)

\* a build directive the grammar accepts: `build` and one path, quoted or bare
ValidBuildDirective(l) == l.k = "dir" /\ l.kw = "build" /\ Len(l.args) = 1

ValidBuildCount(lines) ==
  Cardinality({i \in DOMAIN lines : ValidBuildDirective(lines[i])})

HasHeader(lines) == \E i \in DOMAIN lines : lines[i].k = "header"

HeaderName(lines) ==
  lines[CHOOSE i \in DOMAIN lines :
          lines[i].k = "header" /\ \A j \in 1..(i - 1) : lines[j].k # "header"].name

InterfaceDecls(out) == {i \in DOMAIN out : out[i].k = "interface"}

C1Case ==
  /\ last.op = "generateInterface"
  /\ ValidBuildCount(gen.lines) = 1
  /\ HasHeader(gen.lines)

\* C1: on a source with exactly one valid build directive and a contract
\* header, generateInterface returns, and its output holds exactly one
\* interface declaration, named I<Name> for the header's contract name
C1_OneInterfaceDeclaration ==
  C1Case =>
    /\ last.status = "ok"
    /\ Cardinality(InterfaceDecls(last.out)) = 1
    /\ \A i \in InterfaceDecls(last.out) :
         last.out[i].name = <<"I", HeaderName(gen.lines)>>

\* C1 witness: such a source has been generated, a second header below the
\* first one
C1_Witness ==
  /\ C1Case
  /\ last.status = "ok"
  /\ Cardinality({i \in DOMAIN gen.lines : gen.lines[i].k = "header"}) = 2

\* C2: two forced generations of the same source text give the same output
C2_ForcedGenerationIdempotent ==
  [][(/\ prev.valid /\ prev.force
      /\ prev'.valid /\ prev'.force
      /\ prev'.src = prev.src) => prev'.out = prev.out]_vars

\* C2 witness: a source has been generated twice in a row with force on, and
\* the second time by writeInterface over the output of the first
C2_Witness ==
  /\ prev.valid /\ prev.force /\ prev.runs >= 2
  /\ last.op = "writeInterface" /\ last.status = "generated"
  /\ Exists(last.before, OutP) /\ last.before[OutP].data = prev.out

\* the primary output of the live generator
PrimaryOutput == ResolvePath(gen.buildPath)

Newer(files, out, src) ==
  Exists(files, out) /\ files[out].mtime > files[src].mtime

C3Case ==
  /\ last.op = "writeInterface"
  /\ ~last.force
  /\ Newer(last.before, PrimaryOutput, SrcP)

\* C3 as claimed: when writeInterface is called with force off and the
\* existing output is strictly newer than the source, nothing is written and
\* the output stays as it was
C3_SkipWritesNothing == C3Case => fs = last.before

\* C3 witness: the call was made in that case and reported 'skipped'
C3_Witness == C3Case /\ last.status = "skipped"

\* no module directive of the live generator writes to the primary output
NoModuleWritesOutput ==
  \A i \in DOMAIN gen.moduleDirectives :
    ResolvePath(gen.moduleDirectives[i].to) # PrimaryOutput

C4_SkipReached == last.op = "writeInterface" /\ last.status = "skipped"

\* generateInterface has returned the text of an interface
GeneratedOk == last.op = "generateInterface" /\ last.status = "ok"

\* the single-line doc comments directly above line i + 1, in source order,
\* directive lines among them left out
RECURSIVE DocRun(_, _)
DocRun(lines, i) ==
  IF i < 1 THEN <<>>
  ELSE IF lines[i].k = "dir" THEN DocRun(lines, i - 1)
  ELSE IF lines[i].k \in {"doc", "docBare"}
    THEN Append(DocRun(lines, i - 1), lines[i])
  ELSE <<>>

\* the doc lines rendered directly above entry j + 1 of the output
RECURSIVE RenderedDocs(_, _)
RenderedDocs(out, j) ==
  IF j < 1 THEN <<>>
  ELSE IF out[j].k # "natspec" THEN <<>>
  ELSE Append(RenderedDocs(out, j - 1), out[j].line)

\* C5 as claimed: the doc block rendered above a function is exactly the run
\* of single-line doc comments directly above it in the source, in source
\* order, whether or not directive lines stand among them
C5_DocBlockIsTheRunAbove ==
  GeneratedOk =>
    \A j \in DOMAIN last.out :
      last.out[j].k = "function" =>
        RenderedDocs(last.out, j - 1) = DocRun(gen.lines, last.out[j].line - 1)

\* C5 witness: two doc lines with a directive line between them stand above
\* a function, and exactly the two are rendered above it
C5_Witness ==
  /\ GeneratedOk
  /\ \E j \in DOMAIN last.out :
       /\ last.out[j].k = "function"
       /\ last.out[j].line > 3
       /\ gen.lines[last.out[j].line - 1].k = "doc"
       /\ gen.lines[last.out[j].line - 2].k = "dir"
       /\ gen.lines[last.out[j].line - 3].k = "doc"
       /\ RenderedDocs(last.out, j - 1)
            = <<gen.lines[last.out[j].line - 3], gen.lines[last.out[j].line - 1]>>

\* the function declaration lines of a source
FunctionDecls(lines) == {i \in DOMAIN lines : lines[i].k = "function"}

\* the declaration carries one of the visibility words
DeclaredWith(l, visibilities) ==
  \E i \in DOMAIN l.quals : l.quals[i] \in visibilities

\* names every declaration of which is internal or private and has a body
HiddenNames(lines) ==
  { lines[i].name : i \in
      { d \in FunctionDecls(lines) :
          \A e \in FunctionDecls(lines) :
            lines[e].name = lines[d].name
              => /\ DeclaredWith(lines[e], {"internal", "private"})
                 /\ lines[e].body } }

\* names with a declaration that is external
ExternalNames(lines) ==
  { lines[i].name : i \in
      { d \in FunctionDecls(lines) : DeclaredWith(lines[d], {"external"}) } }

Rendered(out, name) ==
  \E j \in DOMAIN out : out[j].k = "function" /\ out[j].name = name

\* C6 as claimed: a function declared internal or private (with a body) is
\* in the output exactly when its name is in the include set, whether or not
\* it is in the exclude set too
C6_HiddenOnlyIfIncluded ==
  GeneratedOk =>
    \A n \in HiddenNames(gen.lines) :
      Rendered(last.out, n) <=> n \in gen.includeDirectives

\* C6 witness: an internal function named by an include and an exclude
\* directive is rendered
C6_Witness ==
  /\ GeneratedOk
  /\ \E n \in HiddenNames(gen.lines) :
       /\ n \in gen.includeDirectives
       /\ n \in gen.excludeDirectives
       /\ Rendered(last.out, n)

\* C7 as claimed: every external function whose name is not in the exclude
\* set is in the output
C7_ExternalUnlessExcluded ==
  GeneratedOk =>
    \A n \in ExternalNames(gen.lines) :
      n \notin gen.excludeDirectives => Rendered(last.out, n)

\* C7 witness: of two external functions the excluded one is absent and the
\* other one is rendered
C7_Witness ==
  /\ GeneratedOk
  /\ \E n, m \in ExternalNames(gen.lines) :
       /\ n \in gen.excludeDirectives /\ ~Rendered(last.out, n)
       /\ m \notin gen.excludeDirectives /\ Rendered(last.out, m)

\* the directive lines of one keyword
DirectiveLines(lines, kw) ==
  SelectSeq(lines, LAMBDA l : l.k = "dir" /\ l.kw = kw)

\* every name a `remove` directive of the source lists
RemovedNames(lines) ==
  UNION { Range(SplitWords(l.args)) : l \in Range(DirectiveLines(lines, "remove")) }

\* the `replace <name> with <other>` directives of the source
ReplaceLines(lines) ==
  SelectSeq(DirectiveLines(lines, "replace"),
            LAMBDA l : Len(l.args) = 3 /\ l.args[2] = W("with"))

\* <<other>> of the last directive that replaces name, <<>> if there is none
ReplacementOf(lines, name) ==
  LET rs == SelectSeq(ReplaceLines(lines), LAMBDA l : l.args[1] = W(name))
  IN IF rs = <<>> THEN <<>> ELSE <<TokText(rs[Len(rs)].args[3])>>

\* the names of the `is` directives in encounter order
IsNames(lines) ==
  LET ds == DirectiveLines(lines, "is")
  IN Flatten([i \in DOMAIN ds |->
                SelectSeq(SplitWords(ds[i].args), LAMBDA w : w # ",")])

\* the base list rewritten entry by entry: dropped, else replaced, else kept
RECURSIVE RewrittenBases(_, _)
RewrittenBases(lines, bases) ==
  IF bases = <<>> THEN <<>>
  ELSE (IF Head(bases) \in RemovedNames(lines) THEN <<>>
        ELSE IF ReplacementOf(lines, Head(bases)) # <<>>
          THEN ReplacementOf(lines, Head(bases))
        ELSE <<Head(bases)>>)
       \o RewrittenBases(lines, Tail(bases))

\* the names of the header's base list
HeaderBases(lines) ==
  LET h == CHOOSE i \in DOMAIN lines :
             lines[i].k = "header" /\ \A j \in 1..(i - 1) : lines[j].k # "header"
  IN SelectSeq(lines[h].bases, LAMBDA c : c \notin {",", " ", "\n"})

\* the clause the claim describes: nothing for an empty list, else ` is `
\* and the names with `, ` between them
RECURSIVE ClauseText(_)
ClauseText(names) ==
  IF names = <<>> THEN <<>>
  ELSE <<",", " ", Head(names)>> \o ClauseText(Tail(names))

ExpectedClause(lines) ==
  LET names == RewrittenBases(lines, HeaderBases(lines)) \o IsNames(lines)
  IN IF names = <<>> THEN <<>>
     ELSE <<" ", "is", " ", Head(names)>> \o ClauseText(Tail(names))

\* C8: the rendered inheritance clause is the header's base list, each base
\* dropped if removed, else replaced if a replace key, else unchanged,
\* followed by the names of the `is` directives in encounter order with their
\* duplicates; there is no clause when that list is empty
C8_InheritanceClause ==
  GeneratedOk =>
    \A j \in InterfaceDecls(last.out) :
      last.out[j].inheritance = ExpectedClause(gen.lines)

\* C8 witness: header `is A, B` with `remove B`, `replace A with IA` and
\* `is C` has been rendered as ` is IA, C`
C8_Witness ==
  /\ GeneratedOk
  /\ HeaderBases(gen.lines) = <<"A", "B">>
  /\ RemovedNames(gen.lines) = {"B"}
  /\ ReplacementOf(gen.lines, "A") = <<"IA">>
  /\ IsNames(gen.lines) = <<"C">>
  /\ \E j \in InterfaceDecls(last.out) :
       last.out[j].inheritance = <<" ", "is", " ", "IA", ",", " ", "C">>

\* C8, second witness state: every base was removed and no clause is rendered
C8_EmptyReached ==
  /\ GeneratedOk
  /\ HeaderBases(gen.lines) # <<>>
  /\ \E j \in InterfaceDecls(last.out) : last.out[j].inheritance = <<>>

\* the last token before position i that is not white space, 0 if none
RECURSIVE PrevSignificant(_, _)
PrevSignificant(text, i) ==
  IF i <= 1 THEN 0
  ELSE IF text[i - 1] \in {" ", "\n"} THEN PrevSignificant(text, i - 1)
  ELSE i - 1

\* position i of a parameter list or return clause is where a type stands:
\* at the start of an entry, or as the key or the value of a mapping
TypePosition(text, i) ==
  LET j == PrevSignificant(text, i)
  IN j = 0 \/ text[j] \in {",", "(", "=>"}

\* every type-position occurrence of original replaced
SubstituteTypes(text, original, replacement) ==
  [i \in DOMAIN text |->
     IF text[i] = original /\ TypePosition(text, i) THEN replacement
     ELSE text[i]]

\* the source declaration a rendered entry comes from
DeclarationOf(lines, entry) ==
  lines[CHOOSE i \in DOMAIN lines :
          lines[i].k = entry.k /\ lines[i].name = entry.name]

\* C9 as claimed: under `replace Ownable with IOwnable` every rendered
\* parameter list (of a function, an event or an error) and every rendered
\* return clause is its source text with each type-position Ownable replaced
C9_EveryTypePositionReplaced ==
  (GeneratedOk /\ gen.replaceDirectives = <<<<"Ownable", "IOwnable">>>>) =>
    \A j \in DOMAIN last.out :
      last.out[j].k \in {"function", "event", "error"} =>
        LET d == DeclarationOf(gen.lines, last.out[j]) IN
        /\ last.out[j].params
             = SubstituteTypes(Trim(d.params), "Ownable", "IOwnable")
        /\ last.out[j].k = "function" =>
             last.out[j].returns
               = SubstituteTypes(Trim(d.ret), "Ownable", "IOwnable")

\* C9 witness: `address a, Ownable b, Ownable[] c` with return clause
\* `Ownable` has been rendered as the claim says
C9_Witness ==
  /\ GeneratedOk
  /\ \E j \in DOMAIN last.out :
       /\ last.out[j].k = "function"
       /\ DeclarationOf(gen.lines, last.out[j]).params
            = <<"address", " ", "a", ",", " ", "Ownable", " ", "b", ",", " ",
                "Ownable", "[", "]", " ", "c">>
       /\ DeclarationOf(gen.lines, last.out[j]).ret = <<"Ownable">>
       /\ last.out[j].params
            = <<"address", " ", "a", ",", " ", "IOwnable", " ", "b", ",", " ",
                "IOwnable", "[", "]", " ", "c">>
       /\ last.out[j].returns = <<"IOwnable">>

\* the getters rendered for an extracted variable
GettersOf(out, variable) ==
  { j \in DOMAIN out :
      /\ out[j].k = "getter"
      /\ out[j].var = variable.name
      /\ out[j].line = variable.lineNumber }

\* the mutability word of a rendered getter: the word behind `external`
GetterMutability(text) ==
  LET e == FirstIndex(text, LAMBDA c : c = "external")
  IN IF e = 0 \/ e + 2 > Len(text) THEN "" ELSE text[e + 2]

\* C10: an extracted variable has a getter exactly when its name is in the
\* getter set or it is public and its name is not in the exclude set; the
\* getter is pure when the variable is constant or immutable, else view
C10_GetterRule ==
  GeneratedOk =>
    \A i \in DOMAIN parseVariables(gen.lines) :
      LET v == parseVariables(gen.lines)[i] IN
      /\ (GettersOf(last.out, v) # {}) <=>
           \/ v.name \in gen.getterDirectives
           \/ (v.visibility = "public" /\ v.name \notin gen.excludeDirectives)
      /\ \A j \in GettersOf(last.out, v) :
           GetterMutability(last.out[j].text)
             = IF v.isConstant THEN "pure" ELSE "view"

\* C10 witness: a variable that is not public and is named by a getter and an
\* exclude directive has a pure getter
C10_Witness ==
  /\ GeneratedOk
  /\ \E i \in DOMAIN parseVariables(gen.lines) :
       LET v == parseVariables(gen.lines)[i] IN
       /\ v.visibility # "public"
       /\ v.name \in gen.getterDirectives
       /\ v.name \in gen.excludeDirectives
       /\ \E j \in GettersOf(last.out, v) :
            GetterMutability(last.out[j].text) = "pure"

\* the declarations `mapping(K => V) public <name>;` of a source
PublicMappings(lines) ==
  { i \in DOMAIN lines :
      /\ lines[i].k = "var"
      /\ lines[i].type[1] = "mapping"
      /\ Len(lines[i].words) = 2
      /\ lines[i].words[1] = "public" }

\* C11 as claimed: a public state variable of single-level mapping type that
\* is not excluded has a getter in the output, declared on its line
C11_MappingGetter ==
  GeneratedOk =>
    \A i \in PublicMappings(gen.lines) :
      gen.lines[i].words[2] \notin gen.excludeDirectives =>
        \E j \in DOMAIN last.out :
          /\ last.out[j].k = "getter"
          /\ last.out[j].var = gen.lines[i].words[2]
          /\ last.out[j].line = i

\* C11 witness: a source with a public mapping beside a public scalar has
\* been generated, and the scalar has its getter
C11_Witness ==
  /\ GeneratedOk
  /\ \E i \in PublicMappings(gen.lines) :
       gen.lines[i].words[2] \notin gen.excludeDirectives
  /\ \E j \in DOMAIN last.out : last.out[j].k = "getter"

\* the mutability word a declaration carries, "" when it carries none
DeclaredMutability(l) ==
  IF \E i \in DOMAIN l.quals : l.quals[i] \in {"view", "pure", "payable"}
    THEN l.quals[CHOOSE i \in DOMAIN l.quals :
                   l.quals[i] \in {"view", "pure", "payable"}]
    ELSE ""

\* C12 as claimed: every rendered function is external, carries the
\* mutability word of its source declaration, and carries none when the
\* source declaration has none
C12_ExternalWithSourceMutability ==
  GeneratedOk =>
    \A j \in DOMAIN last.out :
      last.out[j].k = "function" =>
        /\ last.out[j].visibility = "external"
        /\ last.out[j].stateMutability
             = DeclaredMutability(gen.lines[last.out[j].line])

\* C12 witness: a public view function has been rendered as external view
\* beside a function without a mutability word rendered without one
C12_Witness ==
  /\ GeneratedOk
  /\ \E j, n \in DOMAIN last.out :
       /\ last.out[j].k = "function"
       /\ gen.lines[last.out[j].line].quals = <<"view", "public">>
       /\ last.out[j].visibility = "external"
       /\ last.out[j].stateMutability = "view"
       /\ last.out[n].k = "function"
       /\ gen.lines[last.out[n].line].quals = <<"public">>
       /\ last.out[n].stateMutability = ""

\* the place of an output line in the fixed order of assembly
GroupRank(e) ==
  CASE e.k \in {"spdx", "pragma"} -> 1
    [] e.k = "copyright" -> 2
    [] e.k = "import" -> 3
    [] e.k = "natspec" -> 4
    [] e.k = "interface" -> 5
    [] e.k = "event" -> 6
    [] e.k = "error" -> 7
    [] e.k = "getter" -> 8
    [] e.k = "function" -> 9
    [] OTHER -> 10

\* the output without its empty lines and without the doc blocks that belong
\* to the declarations inside the interface
Significant(out) ==
  SelectSeq(out, LAMBDA e : e.k # "blank" /\ ~(e.k = "natspec" /\ e.indent # <<>>))

\* the source lines of one kind, in source order
LinesOfKind(lines, kind) == SelectSeq(lines, LAMBDA l : l.k = kind)

NamesOf(entries) == [i \in DOMAIN entries |-> entries[i].name]

\* C13: the output is header boilerplate, copyright line, imports in
\* directive order, contract documentation, interface line, events, errors,
\* getters, functions, closing brace, in that order; within a group the
\* declarations are in source order
C13_FixedAssemblyOrder ==
  GeneratedOk =>
    LET sig == Significant(last.out)
        imports == LinesOfKind(DirectiveLines(gen.lines, "import"), "dir")
        variables == LinesOfKind(gen.lines, "var")
        getters == LinesOfKind(last.out, "getter")
    IN /\ \A i \in 1..(Len(sig) - 1) : GroupRank(sig[i]) <= GroupRank(sig[i + 1])
       /\ sig[1].k = "spdx" /\ sig[2].k = "pragma"
       /\ sig[Len(sig)].k = "close"
       /\ (\E i \in DOMAIN sig : sig[i].k = "copyright")
            <=> (DirectiveLines(gen.lines, "copyright") # <<>>)
       /\ [i \in DOMAIN LinesOfKind(last.out, "import") |->
             LinesOfKind(last.out, "import")[i].path]
            = [i \in DOMAIN imports |-> Tail(imports[i].args[1])]
       /\ NamesOf(LinesOfKind(last.out, "event"))
            = NamesOf(LinesOfKind(gen.lines, "event"))
       /\ NamesOf(LinesOfKind(last.out, "error"))
            = NamesOf(LinesOfKind(gen.lines, "error"))
       /\ [i \in DOMAIN getters |-> getters[i].var]
            = [i \in DOMAIN variables |-> variables[i].words[2]]
       /\ NamesOf(LinesOfKind(last.out, "function"))
            = NamesOf(LinesOfKind(gen.lines, "function"))

\* C13 witness: a source that declares a function, then an event, then an
\* import directive has been rendered with the import, then the event, then
\* the function
C13_Witness ==
  /\ GeneratedOk
  /\ \E a, b, c \in DOMAIN gen.lines :
       /\ a < b /\ b < c
       /\ gen.lines[a].k = "function"
       /\ gen.lines[b].k = "event"
       /\ gen.lines[c].k = "dir" /\ gen.lines[c].kw = "import"
  /\ \E a, b, c \in DOMAIN last.out :
       /\ a < b /\ b < c
       /\ last.out[a].k = "import"
       /\ last.out[b].k = "event"
       /\ last.out[c].k = "function"


\* generation was attempted on a source that sets a build path and has no
\* contract header
C15Case ==
  /\ last.op \in {"generateInterface", "writeInterface"}
  /\ last.attempted
  /\ ValidBuildCount(gen.lines) > 0
  /\ ~HasHeader(gen.lines)

ModuleAlone(i) ==
  processModuleDirective(gen, gen.moduleDirectives[i], last.before, clock)

\* the module directives that write to the path directive i writes to
SameTarget(i) ==
  { j \in DOMAIN gen.moduleDirectives :
      gen.moduleDirectives[j].to = gen.moduleDirectives[i].to }

\* C16: a module directive that fails does not abort its siblings or its
\* owner: after writeInterface every directive that can be carried out has
\* been carried out, whatever became of the directives before and after it,
\* and the up-to-date test and the generation of the primary file followed
C16_FailingModuleAbortsNothing ==
  last.op = "writeInterface" =>
    /\ \A i \in DOMAIN gen.moduleDirectives :
         ModuleAlone(i).ok =>
           \E j \in SameTarget(i) :
             /\ ModuleAlone(j).ok
             /\ last.seen[ResolvePath(gen.moduleDirectives[i].to)] =
                  ModuleAlone(j).files[ResolvePath(gen.moduleDirectives[j].to)]
    /\ last.status \in {"generated", "skipped"}
    /\ last.status = "generated" =>
         /\ last.attempted
         /\ fs[PrimaryOutput] = File(clock, last.out)

\* a directive failed, a later directive of the same file was carried out,
\* and the primary interface was generated
C16_Witness ==
  /\ last.op = "writeInterface"
  /\ last.status = "generated"
  /\ \E i, j \in DOMAIN gen.moduleDirectives :
       /\ i < j
       /\ ~ModuleAlone(i).ok
       /\ ModuleAlone(j).ok
       /\ gen.moduleDirectives[i].to # gen.moduleDirectives[j].to
       /\ last.seen[ResolvePath(gen.moduleDirectives[j].to)] =
            ModuleAlone(j).files[ResolvePath(gen.moduleDirectives[j].to)]


\* the generator a module file gets when it is built for directive d by
\* nobody's module loop: a fresh one on the module file, the directive's own
\* flags applied, its output path set
StandAlone(d, files) ==
  [applyModuleFlags(NewGenerator(ResolvePath(d.from), gen.force, files),
                    parseModuleFlags(d.flags))
     EXCEPT !.buildPath = d.to]

\* C20: processing a module directive leaves the primary generator's
\* directive state unchanged (it is still what the constructor parsed from
\* the primary file), and the text written for a module is the text of the
\* module file under the module's own directives and the inline flags of
\* its directive alone, whatever directives the primary file holds
C20_ModuleFlagsStayWithModule ==
  last.op = "writeInterface" =>
    /\ gen = NewGenerator(SrcP, gen.force, last.before)
    /\ \A i \in DOMAIN gen.moduleDirectives :
         ModuleAlone(i).ok =>
           \E j \in SameTarget(i) :
             /\ Exists(last.before, ResolvePath(gen.moduleDirectives[j].from))
             /\ last.seen[ResolvePath(gen.moduleDirectives[i].to)].data =
                  generateInterface(
                    StandAlone(gen.moduleDirectives[j], last.before)).out

\* a module directive with inline flags was processed for a primary file
\* that has removal, replacement, inheritance and import directives of its own
C20_Witness ==
  /\ last.op = "writeInterface"
  /\ gen.removeDirectives # {}
  /\ gen.replaceDirectives # <<>>
  /\ gen.isDirectives # <<>>
  /\ gen.importDirectives # <<>>
  /\ \E i \in DOMAIN gen.moduleDirectives :
       /\ gen.moduleDirectives[i].flags # <<>>
       /\ ModuleAlone(i).ok
       /\ last.seen[ResolvePath(gen.moduleDirectives[i].to)].mtime = clock


\* the files attempted so far, in the order of the attempts
AttemptedFiles == [i \in DOMAIN run.attempted |-> run.attempted[i].file]

\* the number of attempts that ended in result
Ended(result) ==
  Cardinality({i \in DOMAIN run.attempted : run.attempted[i].result = result})

\* the loop has ended
BatchEnded == run.pc \in {"built", "done"} /\ run.contractFiles # <<>>

\* C17: in batch mode every discovered file is attempted exactly once, in
\* order, even when earlier files fail; a failure is counted and never halts
\* the batch, and when the batch ends the three counters add up to the
\* number of discovered files
C17_EveryFileAttemptedOnce ==
  /\ run.next = Len(run.attempted) + 1
  /\ run.next <= Len(run.contractFiles) + 1
  /\ AttemptedFiles = SubSeq(run.contractFiles, 1, run.next - 1)
  /\ run.successCount = Ended("generated")
  /\ run.skippedCount = Ended("skipped")
  /\ run.errorCount = Ended("error")
  /\ run.pc = "exit" => run.attempted = <<>>
  /\ BatchEnded =>
       /\ AttemptedFiles = run.contractFiles
       /\ run.successCount + run.skippedCount + run.errorCount =
            Len(run.contractFiles)

\* a batch of two files has ended: the first file failed, the second was
\* generated
C17_Witness ==
  /\ BatchEnded
  /\ run.mode = "interfaces"
  /\ Len(run.contractFiles) = 2
  /\ run.attempted[1].result = "error"
  /\ run.attempted[2].result = "generated"
  /\ run.errorCount = 1
  /\ run.successCount = 1


HeaderAt(lines) == CHOOSE h \in DOMAIN lines : lines[h].k = "header"

\* C18 as claimed: the documentation rendered above the interface
\* declaration is the doc block that directly precedes the contract header,
\* every line of it, the one directly above the header included
C18_ContractDocIsTheBlockAbove ==
  (GeneratedOk /\ HasHeader(gen.lines)) =>
    \A j \in DOMAIN last.out :
      last.out[j].k = "interface" =>
        RenderedDocs(last.out, j - 1) =
          DocRun(gen.lines, HeaderAt(gen.lines) - 1)

\* an interface was generated from a source with two doc lines directly
\* above its contract header, and the first of them was rendered
C18_Witness ==
  /\ GeneratedOk
  /\ HasHeader(gen.lines)
  /\ Len(DocRun(gen.lines, HeaderAt(gen.lines) - 1)) = 2
  /\ \E j \in DOMAIN last.out :
       /\ last.out[j].k = "interface"
       /\ RenderedDocs(last.out, j - 1) =
            <<DocRun(gen.lines, HeaderAt(gen.lines) - 1)[1]>>

\* C14: a source file with no valid build directive always ends in the
\* configuration error when the batch loop invokes generation on it: the
\* call is never reported as generated or skipped, it is counted as a
\* failure, and no file is written
C14_NoBuildAlwaysFails ==
  (last.op = "writeInterface" /\ ValidBuildCount(gen.lines) = 0)
    => /\ last.status = "error"
       /\ last.error = "No build directive found"
       /\ fs = last.before
       /\ run.attempted[Len(run.attempted)].result = "error"

\* the configuration error is reached and counted: the run was forced, or
\* the directory the empty path resolves to is not newer than the source
C14_Witness ==
  /\ last.op = "writeInterface"
  /\ ValidBuildCount(gen.lines) = 0
  /\ last.status = "error"
  /\ last.error = "No build directive found"
  /\ run.errorCount > 0


\* the words that directly follow an occurrence of flag in a flag tail
FlagArguments(flags, flag) ==
  { Tail(flags[i + 1]) : i \in { j \in 1..(Len(flags) - 1) : flags[j] = flag } }

\* the replacement pairs written in a flag tail
FlagPairs(flags) ==
  { <<TokText(flags[i + 1]), TokText(flags[i + 3])>> :
      i \in { j \in 1..(Len(flags) - 3) : flags[j] = W("--replace") } }

\* the generator processModuleDirective builds for the only module directive
\* of the primary file
ModuleGenerator == StandAlone(gen.moduleDirectives[1], last.before)

\* C21 as claimed: when the flag tail of a module directive repeats a flag
\* kind, every occurrence is applied: each --remove, each --replace, each
\* --is and each --import contributes to the module generator's sets
C21_EveryFlagOccurrenceApplied ==
  (last.op = "writeInterface" /\ Len(gen.moduleDirectives) = 1) =>
    LET flags == gen.moduleDirectives[1].flags IN
      /\ FlagArguments(flags, W("--remove")) \subseteq
           { <<n>> : n \in ModuleGenerator.removeDirectives }
      /\ \A pair \in FlagPairs(flags) :
           MapHas(ModuleGenerator.replaceDirectives, pair[1])
      /\ FlagArguments(flags, W("--is")) \subseteq
           { <<n>> : n \in Range(ModuleGenerator.isDirectives) }
      /\ FlagArguments(flags, W("--import")) \subseteq
           Range(ModuleGenerator.importDirectives)

\* a tail with two --remove flags was processed and both names are in the
\* module generator's remove set
C21_Witness ==
  /\ last.op = "writeInterface"
  /\ Len(gen.moduleDirectives) = 1
  /\ Cardinality(FlagArguments(gen.moduleDirectives[1].flags,
                               W("--remove"))) = 2
  /\ {"A", "B"} \subseteq ModuleGenerator.removeDirectives


\* the directive of import line l ends in a semicolon
HasSemicolon(l) ==
  \/ Len(l.args) = 2
  \/ l.args[1][Len(l.args[1])] = ";"

\* the path an import directive names, its semicolon left out
DirectivePath(l) ==
  SelectSeq(Tail(l.args[1]), LAMBDA c : c # ";")

\* C22 as claimed: the recorded path of an import directive is the
\* directive's path with any trailing semicolon stripped, quoted or bare,
\* and the rendered import line never has a semicolon inside its quotes
C22_ImportSemicolonStripped ==
  GeneratedOk =>
    LET imports == DirectiveLines(gen.lines, "import")
        rendered == LinesOfKind(last.out, "import")
    IN /\ gen.importDirectives =
            [i \in DOMAIN imports |-> DirectivePath(imports[i])]
       /\ \A i \in DOMAIN rendered : ~Contains(rendered[i].path, ";")

\* a quoted import and a bare import, each followed by a semicolon after a
\* space or none, were rendered without the semicolon
C22_Witness ==
  /\ GeneratedOk
  /\ \E i \in DOMAIN gen.lines :
       /\ gen.lines[i].k = "dir" /\ gen.lines[i].kw = "import"
       /\ HasSemicolon(gen.lines[i])
  /\ \A i \in DOMAIN last.out :
       last.out[i].k = "import" => ~Contains(last.out[i].path, ";")


\* rendered is text with nothing changed but tokens that stand where a type
\* stands
OnlyTypesChanged(text, rendered) ==
  /\ Len(rendered) = Len(text)
  /\ \A i \in DOMAIN text : ~TypePosition(text, i) => rendered[i] = text[i]

\* the text of the getter of variable name before type substitution
GetterBefore(name) ==
  LET getters == generateGetterFunctions(gen, parseVariables(gen.lines))
  IN getters[CHOOSE i \in DOMAIN getters : getters[i].var = name].text

\* the position of the word `returns` in a getter text
ReturnsAt(text) == CHOOSE i \in DOMAIN text : text[i] = "returns"

\* C23 as claimed: type substitution only changes type names: in a rendered
\* parameter list every token that is not in a type position is the token of
\* the source, and the doc block, the keyword and the name of a rendered
\* getter are those of the variable, even where they are spelled like a key
\* of the replace map
C23_OnlyTypeNamesChange ==
  GeneratedOk =>
    \A j \in DOMAIN last.out :
      /\ last.out[j].k \in {"function", "event", "error"} =>
           OnlyTypesChanged(Trim(DeclarationOf(gen.lines, last.out[j]).params),
                            last.out[j].params)
      /\ last.out[j].k = "getter" =>
           LET before == GetterBefore(last.out[j].var) IN
           /\ Len(last.out[j].text) = Len(before)
           /\ \A i \in 1..ReturnsAt(before) : last.out[j].text[i] = before[i]

\* a function and a variable both named like the key were rendered with
\* their names unchanged
C23_Witness ==
  /\ GeneratedOk
  /\ \E j \in DOMAIN last.out :
       last.out[j].k = "function" /\ last.out[j].name = "Ownable"
  /\ \E j \in DOMAIN last.out :
       /\ last.out[j].k = "getter" /\ last.out[j].var = "Ownable"
       /\ Contains(last.out[j].text, "Ownable")
       /\ ~Contains(last.out[j].text, "IOwnable")


\* C24 as claimed: in the backward doc scan, once a line that holds the
\* block-comment opener has been included, scanning stops: the opener line of
\* the captured block is the first line of the doc block, and no line above
\* it is part of the block, for a multi-line block and for a block that opens
\* and closes on one line alike
C24_ScanStopsAtOpener ==
  GeneratedOk =>
    \A j \in DOMAIN last.out :
      last.out[j].k = "function" =>
        LET docs == RenderedDocs(last.out, j - 1) IN
        \A i \in DOMAIN docs : StartsBlockOpener(docs[i]) => i = 1

\* a multi-line block with a doc line above its opener was rendered from
\* its opener on, the line above left out
C24_Witness ==
  /\ GeneratedOk
  /\ \E j \in DOMAIN last.out :
       /\ last.out[j].k = "function"
       /\ last.out[j].line = 6
       /\ gen.lines[3].k = "doc"
       /\ RenderedDocs(last.out, j - 1) = <<BlockOpen, BlockEnd>>


\* C25 as claimed: the two directive front ends are one engine: for a source
\* that uses only directive kinds both accept, the `!interface` generator
\* and the `@custom:interface` generator return the same text
C25_FrontEndsAgree ==
  GeneratedOk =>
    \E variant \in {VariantGenerateInterface(gen)} :
      variant.ok /\ variant.out = last.out

\* a source with a replace directive, a rewritten inheritance list and a
\* public variable for which both generators return the same text
C25_Witness ==
  /\ GeneratedOk
  /\ gen.replaceDirectives # <<>>
  /\ \E j \in DOMAIN last.out : last.out[j].k = "getter"
  /\ VariantGenerateInterface(gen).out = last.out


\* the module directive line of the source
ModuleLine == DirectiveLines(gen.lines, "module")[1]

\* C26 as claimed: for a directive `module "<src>" to "<dst>" [flags]` the
\* stored module task has <src> as its source path, <dst> as its output path
\* and the tail as its flags, for all quoted paths, with spaces or the word
\* `to` in them
C26_ModuleTaskAsWritten ==
  (gen.alive /\ Len(DirectiveLines(gen.lines, "module")) = 1) =>
    gen.moduleDirectives =
      <<[from |-> Tail(ModuleLine.args[1]),
         to |-> Tail(ModuleLine.args[3]),
         flags |-> SubSeq(ModuleLine.args, 4, Len(ModuleLine.args))]>>

\* a directive whose source path holds a space was stored as written
C26_Witness ==
  /\ gen.alive
  /\ Len(DirectiveLines(gen.lines, "module")) = 1
  /\ ModuleLine.args[1] = <<"q", "my", "M.sol">>
  /\ Len(ModuleLine.args) = 5
  /\ gen.moduleDirectives =
       <<[from |-> <<"my", "M.sol">>, to |-> <<"IM.sol">>,
          flags |-> <<W("--remove"), W("A")>>]>>


\* directive lines whose content matches none of the sub-grammars of
\* parseDirectiveContent: a bare `build`, a build path of two bare words, a
\* replace without `with`, a module with unquoted paths, a misspelt kind, an
\* import with a trailing word, a bare `remove`
FallbackLines ==
  { DirLine("build", <<>>),
    DirLine("build", <<W("my"), W("IP.sol")>>),
    DirLine("replace", <<W("A"), W("B")>>),
    DirLine("module", <<W("M.sol"), W("to"), W("IM.sol")>>),
    DirLine("imports", <<Q("a.sol")>>),
    DirLine("import", <<Q("a.sol"), W("x")>>),
    DirLine("remove", <<>>) }

\* one well-formed directive of every kind, so that every directive set holds
\* something before the lines under test are read
EveryKind ==
  << BuildDir("IP.sol"),
     DirLine("copyright", <<Q("c")>>),
     DirLine("import", <<Q("a.sol")>>),
     DirLine("replace", <<W("A"), W("with"), W("IA")>>),
     DirLine("remove", <<W("f")>>),
     DirLine("exclude", <<W("g")>>),
     DirLine("include", <<W("h")>>),
     DirLine("getter", <<W("x")>>),
     DirLine("is", <<W("IB")>>),
     DirLine("module", <<Q("M.sol"), W("to"), Q("IM.sol")>>) >>

FallbackAlphabet ==
  FallbackLines \cup { DirLine("build", <<Q("IQ.sol")>>) }

InitFallback ==
  InitOn({ EveryKind \o ls \o <<HeaderLine("Lock", <<>>), CloseLine>> :
           ls \in SeqsUpTo(FallbackAlphabet, MaxLines) })

SpecFallback == InitFallback /\ [][NextGen]_vars

\* the recorded output path and every directive collection of a generator
DirectiveState(g) ==
  [buildPath |-> g.buildPath, copyrightNotice |-> g.copyrightNotice,
   importDirectives |-> g.importDirectives,
   replaceDirectives |-> g.replaceDirectives,
   removeDirectives |-> g.removeDirectives,
   excludeDirectives |-> g.excludeDirectives,
   includeDirectives |-> g.includeDirectives,
   getterDirectives |-> g.getterDirectives,
   isDirectives |-> g.isDirectives,
   moduleDirectives |-> g.moduleDirectives]

\* the same source with the lines that match no sub-grammar struck out
WithoutFallback(lines) == SelectSeq(lines, LAMBDA l : l \notin FallbackLines)

\* C27: a directive line that matches no sub-grammar changes neither the
\* recorded output path nor any directive collection: the generator holds
\* what it would hold had those lines not been in the source
C27_FallbackChangesNothing ==
  gen.alive =>
    DirectiveState(gen) =
      DirectiveState(parseDirectives(
        [NoGen EXCEPT !.alive = TRUE, !.lines = WithoutFallback(gen.lines)], 1))

\* a source whose last directive is `build my IP.sol`, after a well-formed
\* `build "IQ.sol"`, has been read: the path is still IQ.sol
C27_Witness ==
  /\ gen.alive
  /\ Len(gen.lines) = Len(EveryKind) + 5
  /\ gen.lines[Len(EveryKind) + 1] = DirLine("build", <<>>)
  /\ gen.lines[Len(EveryKind) + 2] = DirLine("build", <<Q("IQ.sol")>>)
  /\ gen.lines[Len(EveryKind) + 3] = DirLine("build", <<W("my"), W("IP.sol")>>)
  /\ gen.buildPath = <<"IQ.sol">>
  /\ gen.removeDirectives = {"f"}


\* the function records of the live generator, and how often a name is
\* declared by the source and by a list of records
ParsedFunctions == parseFunctions(gen.lines)
DeclaredTimes(name) ==
  Cardinality({i \in DOMAIN gen.lines :
                 gen.lines[i].k = "function" /\ gen.lines[i].name = name})
RecordedTimes(name) ==
  Cardinality({i \in DOMAIN ParsedFunctions : ParsedFunctions[i].name = name})

\* C28: every function record carries the name declared on the line it starts
\* at, no line yields two records, and no name has more records than the
\* source has declarations of it
C28_RecordNamedAfterItsLine ==
  gen.alive =>
    /\ \A i \in DOMAIN ParsedFunctions :
         /\ gen.lines[ParsedFunctions[i].lineNumber].k = "function"
         /\ ParsedFunctions[i].name =
              gen.lines[ParsedFunctions[i].lineNumber].name
    /\ \A i, j \in DOMAIN ParsedFunctions :
         ParsedFunctions[i].lineNumber = ParsedFunctions[j].lineNumber => i = j
    /\ \A name \in {"f", "g"} : RecordedTimes(name) <= DeclaredTimes(name)

\* a declaration of g with a body followed by a declaration of f without one
\* has been parsed: the only record is g's, at g's line
C28_Witness ==
  /\ gen.alive
  /\ \E i \in DOMAIN gen.lines :
       /\ i + 2 <= Len(gen.lines)
       /\ gen.lines[i].k = "function" /\ gen.lines[i].name = "g"
       /\ gen.lines[i].body
       /\ gen.lines[i + 2].k = "function" /\ gen.lines[i + 2].name = "f"
       /\ ~gen.lines[i + 2].body
       /\ Len(ParsedFunctions) = 1
       /\ ParsedFunctions[1].name = "g"
       /\ ParsedFunctions[1].lineNumber = i


\* files that name each other in module directives.  The primary file P.sol
\* names M.sol, itself or an absent file, always with IM.sol as output; the
\* module file M.sol names P.sol or itself with IX.sol as output, or nothing
OutX == <<"IX.sol">>

CycleAlphabet ==
  { DirLine("module", <<Q("M.sol"), W("to"), Q("IM.sol")>>),
    DirLine("module", <<Q("P.sol"), W("to"), Q("IM.sol")>>),
    DirLine("module", <<Q("X.sol"), W("to"), Q("IM.sol")>>) }

CycleModules ==
  { File(1, <<DirLine("module", <<Q("P.sol"), W("to"), Q("IX.sol")>>)>>
              \o ModuleSource),
    File(1, <<DirLine("module", <<Q("M.sol"), W("to"), Q("IX.sol")>>)>>
              \o ModuleSource),
    File(1, ModuleSource) }

InitCycle ==
  /\ clock = 2
  /\ \E mods \in SeqsUpTo(CycleAlphabet, MaxLines), mod \in CycleModules :
       fs = [p \in Paths \cup {OutX} |->
               CASE p = ContractDir -> File(1, <<>>)
                 [] p = SrcP -> File(1, mods \o <<BuildDir("IP.sol"),
                                                  HeaderLine("Lock", <<>>),
                                                  PlainFunction("f"),
                                                  CloseLine, CloseLine>>)
                 [] p = SrcM -> mod
                 [] OTHER -> NoFile]
  /\ gen = NoGen
  /\ last = NoCall(fs)
  /\ prev = NoPrev
  /\ run = NoRun

SpecCycle == InitCycle /\ [][NextModules]_vars

\* the module directives of the primary file that can be carried out and
\* write to path p
WritersOf(p) ==
  { i \in DOMAIN gen.moduleDirectives :
      ModuleAlone(i).ok /\ ResolvePath(gen.moduleDirectives[i].to) = p }

\* C29 as stated: after writeInterface the output of every module directive
\* of the primary file has been written in this call, and no other file but
\* the primary output has changed
C29_OneOutputPerDirective ==
  last.op = "writeInterface" =>
    /\ \A i \in DOMAIN gen.moduleDirectives :
         /\ last.seen[ResolvePath(gen.moduleDirectives[i].to)].exists
         /\ last.seen[ResolvePath(gen.moduleDirectives[i].to)].mtime = clock
    /\ \A p \in DOMAIN fs \ {ContractDir} :
         last.seen[p] # last.before[p] => WritersOf(p) # {}

\* C29 amended: the module loop writes one output for every module directive
\* of the primary file that can be carried out and none for one that fails;
\* no other file changes, so the module directives of a module file, which
\* may name the primary file or the module file itself, are never processed
C29_OneOutputPerProcessedDirective ==
  last.op = "writeInterface" =>
    /\ \A p \in DOMAIN fs \ {ContractDir} :
         /\ WritersOf(p) # {} =>
              \E i \in WritersOf(p) :
                last.seen[p] =
                  File(clock, generateInterface(
                                StandAlone(gen.moduleDirectives[i],
                                           last.before)).out)
         /\ WritersOf(p) = {} => last.seen[p] = last.before[p]
    /\ last.status \in {"generated", "skipped"}
    /\ \A p \in DOMAIN fs \ {ContractDir, PrimaryOutput} : fs[p] = last.seen[p]

\* P.sol names M.sol and M.sol names P.sol: writeInterface returned, IM.sol
\* was written and IX.sol, the output M.sol asks for, was not
C29_Witness ==
  /\ last.op = "writeInterface"
  /\ Len(gen.moduleDirectives) = 1
  /\ gen.moduleDirectives[1].from = <<"M.sol">>
  /\ Len(NewGenerator(SrcM, FALSE, last.before).moduleDirectives) = 1
  /\ NewGenerator(SrcM, FALSE, last.before).moduleDirectives[1].from = <<"P.sol">>
  /\ fs[OutM].exists
  /\ fs[OutM].mtime = clock
  /\ ~fs[OutX].exists


\* replace directives whose values are keys of one another, in every order,
\* over a contract that names A both as a base and as a type
ReplaceAlphabet ==
  { DirLine("replace", <<W("A"), W("with"), W("B")>>),
    DirLine("replace", <<W("B"), W("with"), W("IB")>>),
    DirLine("replace", <<W("A"), W("with"), W("IA")>>),
    DirLine("replace", <<W("B"), W("with"), W("A")>>) }

InitReplace ==
  InitOn({ <<BuildDir("IP.sol")>> \o dirs
             \o <<HeaderLine("Lock", bases),
                  FunctionLine("f", <<"address", " ", "a", ",", " ", "A", " ",
                                      "b", ",", " ", "B", " ", "x">>,
                               <<"external">>, ret, TRUE),
                  CloseLine, CloseLine>> :
           dirs \in SeqsUpTo(ReplaceAlphabet, MaxLines),
           bases \in {<<"A", " ">>, <<"B", ",", " ", "A", " ">>},
           ret \in {<<"A">>, <<"B">>} })

SpecReplace == InitReplace /\ [][NextGen]_vars

\* every mapped name of a text replaced once, by the value the map holds for
\* it, whatever the other pairs are
SingleStep(text, replaceDirectives) ==
  [i \in DOMAIN text |->
     IF MapHas(replaceDirectives, text[i]) /\ TypePosition(text, i)
       THEN MapGet(replaceDirectives, text[i])
       ELSE text[i]]

\* C30: every name of the base list and every type of the parameter list and
\* the return clause that is a key of the replace map is rendered as the
\* value the map holds for that key, and as nothing else
C30_ReplacedOnceEverywhere ==
  GeneratedOk =>
    /\ \A j \in InterfaceDecls(last.out) :
         last.out[j].inheritance =
           ExpectedClause(
             <<HeaderLine("Lock",
                          [i \in DOMAIN HeaderBases(gen.lines) |->
                             IF MapHas(gen.replaceDirectives,
                                       HeaderBases(gen.lines)[i])
                               THEN MapGet(gen.replaceDirectives,
                                           HeaderBases(gen.lines)[i])
                               ELSE HeaderBases(gen.lines)[i]])>>)
    /\ \A j \in DOMAIN last.out :
         last.out[j].k = "function" =>
           LET d == DeclarationOf(gen.lines, last.out[j]) IN
           /\ last.out[j].params
                = SingleStep(Trim(d.params), gen.replaceDirectives)
           /\ last.out[j].returns
                = SingleStep(Trim(d.ret), gen.replaceDirectives)

\* `replace B with IB` written before `replace A with B`: base, parameter and
\* return type A are all rendered as B
C30_Witness ==
  /\ GeneratedOk
  /\ gen.replaceDirectives = <<<<"B", "IB">>, <<"A", "B">>>>
  /\ HeaderBases(gen.lines) = <<"A">>
  /\ \E j \in InterfaceDecls(last.out) :
       last.out[j].inheritance = <<" ", "is", " ", "B">>
  /\ \E j \in DOMAIN last.out :
       /\ last.out[j].k = "function"
       /\ DeclarationOf(gen.lines, last.out[j]).ret = <<"A">>
       /\ last.out[j].returns = <<"B">>
       /\ last.out[j].params = <<"address", " ", "a", ",", " ", "B", " ",
                                 "b", ",", " ", "IB", " ", "x">>

====
